---- MODULE Spec2Model ----
(***************************************************************************)
(* Electric-Current-Analogies: the three animated simulations              *)
(* (ElectricCircuit, WaterCircuit, PlaygroundSlide), their animation       *)
(* loops, rate estimators and position functions.                          *)
(*                                                                         *)
(* Numbers.  The program computes with IEEE doubles; the model computes    *)
(* with exact integers in fixed units:                                     *)
(*   - progress: 1 path unit = Unit model units, with Unit chosen so that  *)
(*     every initial progress and every per-tick speed is an integer;      *)
(*   - time (performance.now()): whole milliseconds;                       *)
(*   - displayRate: a reduced fraction [num, den];                         *)
(*   - positions: 1 svg unit = Milli model units, truncated; progress in   *)
(*     whole path units.                                                   *)
(* React: an event handler, the render it causes and the effects of that   *)
(* render run as one step (effects of discrete events are flushed          *)
(* synchronously); requestAnimationFrame callbacks pending at a display    *)
(* refresh all run in that refresh, in the order they were requested.      *)
(***************************************************************************)
EXTENDS Integers, Sequences, FiniteSets, TLC

VARIABLES
  electric,     \* state and refs of the ElectricCircuit component
  water,        \* state and refs of the WaterCircuit component
  playground,   \* state and refs of the PlaygroundSlide component
  now,          \* performance.now(), in ms
  visibility,   \* App: which panels are shown
  simulationOrder, \* App: the order of the panels
  draggedItem,  \* App: the panel being dragged, or NoItem
  dragOverItem, \* App: the panel dragged over, or NoItem
  rafQueue,     \* the browser's pending animation-frame callbacks
  nextFrameId,  \* the next handle requestAnimationFrame returns
  focus,        \* the panel whose controls the user operates
  inputs,       \* number of user input events so far
  frames,       \* number of display refreshes so far
  lastOp,       \* the operation that produced the current state
  args,         \* inputs of a pure-function evaluation
  result        \* its result

vars == <<electric, water, playground, visibility, simulationOrder, draggedItem,
          dragOverItem, now, rafQueue, nextFrameId,
          focus, inputs, frames, lastOp, args, result>>

Sims == {"electric", "water", "playground"}

----------------------------------------------------------------------------
(* Bounds of the model *)

MaxInputs == 2
MaxFrames == 4

\* SpecRun starts after this many display refreshes of undisturbed playback.
WarmFrames == 44

\* Time between two display refreshes: a regular frame, or a long one
\* (a throttled or briefly hidden tab).
Dts == {100, 1000}

\* Slider values the user picks (each slider's min and max).
VoltageValues == {0, 100}
RangeValues == {10, 100}

\* SpecEst: the longest crossing log drawn, the crossing times it is drawn
\* from and the delays after which the estimator is queried.
MaxLog == 3

\* SpecPos: whole laps an entity is taken beyond its first.
MaxTurns == 2
EstTimes == {0, 1000, 2000}
QueryDelays == Dts \cup {0, 3000}

----------------------------------------------------------------------------
(* Program constants *)

TOTAL_PATH_LENGTH == 1000
ELECTRIC_PARTICLE_COUNT == 30
WATER_PARTICLE_COUNT == 40
KID_COUNT == 15
INITIAL_VOLTAGE == 50
INITIAL_WIRE_WIDTH == 50
INITIAL_HEIGHT_DIFFERENCE == 50
INITIAL_PIPE_WIDTH == 50
INITIAL_SLIDE_HEIGHT == 50
INITIAL_SLIDE_WIDTH == 50
CROSSING_POINT == 450
ELECTRIC_CROSSING_POINT == 900

\* 1 path unit.  speed = (0.5 + h/100*4) * (0.2 + 0.8*(w-10)/90) has
\* denominator 50 * 225; the initial progresses i/30, i/40, i/15 * 1000
\* have denominator 3, which divides it.
Unit == 50 * 225

PathLength == TOTAL_PATH_LENGTH * Unit

----------------------------------------------------------------------------
(* Fractions *)

RECURSIVE Gcd(_, _)
Gcd(a, b) == IF b = 0 THEN a ELSE Gcd(b, a % b)

\* n / d as a reduced fraction, d > 0, n >= 0
Rat(n, d) == LET g == Gcd(n, d) IN [num |-> n \div g, den |-> d \div g]

Zero == [num |-> 0, den |-> 1]

----------------------------------------------------------------------------
(* Entities *)

\* Array.from({ length: count }, (_, i) => ({ id: i, progress: (i / count) * 1000 }))
InitialEntities(count) ==
  [k \in 1..count |-> [id |-> k - 1,
                       progress |-> ((k - 1) * TOTAL_PATH_LENGTH * Unit) \div count]]

\* progress % TOTAL_PATH_LENGTH
Mod(progress) == progress % PathLength

\* number of indices of seq s that satisfy Flag
CountTrue(flags) == Cardinality({k \in DOMAIN flags : flags[k]})

----------------------------------------------------------------------------
(* The browser's animation-frame queue.  A world is the part of the state  *)
(* the components and the queue make up:                                   *)
(*   [electric, water, playground, rafQueue, nextFrameId]                  *)

\* requestAnimationFrame(callback): the callback is runSimulation of `owner';
\* the electric one is a closure over the voltage of the render that made it.
\* The handle returned is wd.nextFrameId.
RequestAnimationFrame(wd, owner, capturedVoltage) ==
  [wd EXCEPT !.rafQueue = @ \cup {[id |-> wd.nextFrameId, owner |-> owner,
                                   voltage |-> capturedVoltage]},
             !.nextFrameId = @ + 1]

\* cancelAnimationFrame(id)
CancelAnimationFrame(wd, id) ==
  [wd EXCEPT !.rafQueue = {cb \in @ : cb.id # id}]

\* if (animationFrameId.current) cancelAnimationFrame(animationFrameId.current)
\* (0 stands for null)
CancelIfSet(wd, id) == IF id # 0 THEN CancelAnimationFrame(wd, id) ELSE wd

----------------------------------------------------------------------------
(* ElectricCircuit *)

CHARGE_PER_PARTICLE == [num |-> 1, den |-> 100]

\* p.progress % TOTAL_PATH_LENGTH > 900 && newProgress % TOTAL_PATH_LENGTH <= 900
ElectricCrossed(progress, newProgress) ==
  /\ Mod(progress) > ELECTRIC_CROSSING_POINT * Unit
  /\ Mod(newProgress) <= ELECTRIC_CROSSING_POINT * Unit

\* variant: the speed is the voltage fraction, without the factor 4
ElectricSpeedUnscaled(voltage) == (voltage * Unit) \div 100

\* variant: the charges drift against the direction of the path
ElectricSpeedReversed(voltage) == 0 - (voltage * 4 * Unit) \div 100

\* const speed = (voltage / 100) * 4
ElectricSpeed(voltage) == (voltage * 4 * Unit) \div 100

\* variant: the bucket closes only after more than 1000 ms
ElectricReportLate(e, t) ==
  IF e.measureRateRef /\ t - e.lastMeasureTime > 1000
    THEN [e EXCEPT !.displayRate = Rat(e.particlesCrossed * CHARGE_PER_PARTICLE.num,
                                       CHARGE_PER_PARTICLE.den),
                   !.particlesCrossed = 0,
                   !.lastMeasureTime = t]
    ELSE e

\* the measureRate branch at the top of runSimulation
ElectricReport(e, t) ==
  IF e.measureRateRef /\ t - e.lastMeasureTime >= 1000
    THEN [e EXCEPT !.displayRate = Rat(e.particlesCrossed * CHARGE_PER_PARTICLE.num,
                                       CHARGE_PER_PARTICLE.den),
                   !.particlesCrossed = 0,
                   !.lastMeasureTime = t]
    ELSE e

\* variant: the charges move at half speed on the last segment of the loop
ElectricRunSimulationSlowReturn(wd, voltage, t) ==
  LET e  == wd.electric
      e1 == ElectricReport(e, t)
      speed(p) == IF Mod(p) > ELECTRIC_CROSSING_POINT * Unit
                    THEN ElectricSpeed(voltage) \div 2 ELSE ElectricSpeed(voltage)
      crossed == CountTrue([k \in DOMAIN e.particles |->
                   ElectricCrossed(e.particles[k].progress,
                                   e.particles[k].progress + speed(e.particles[k].progress))])
      e2 == [e1 EXCEPT
               !.particles = [k \in DOMAIN e.particles |->
                  [e.particles[k] EXCEPT !.progress = @ + speed(@)]],
               !.particlesCrossed = IF e.measureRateRef THEN @ + crossed ELSE @,
               !.animationFrameId = wd.nextFrameId]
  IN RequestAnimationFrame([wd EXCEPT !.electric = e2], "electric", voltage)

\* runSimulation, as the closure made by the render with voltage `voltage',
\* run at time t
ElectricRunSimulation(wd, voltage, t) ==
  LET e  == wd.electric
      e1 == ElectricReport(e, t)
      speed == ElectricSpeed(voltage)
      crossed == CountTrue([k \in DOMAIN e.particles |->
                   ElectricCrossed(e.particles[k].progress,
                                   e.particles[k].progress + speed)])
      e2 == [e1 EXCEPT
               !.particles = [k \in DOMAIN e.particles |->
                  [e.particles[k] EXCEPT !.progress = @ + speed]],
               !.particlesCrossed = IF e.measureRateRef THEN @ + crossed ELSE @,
               !.animationFrameId = wd.nextFrameId]
  IN RequestAnimationFrame([wd EXCEPT !.electric = e2], "electric", voltage)

\* useEffect(..., [measureRate])
ElectricMeasureEffect(wd, t) ==
  LET e == wd.electric IN
  [wd EXCEPT !.electric =
     IF ~e.measureRate
       THEN [e EXCEPT !.measureRateRef = e.measureRate,
                      !.particlesCrossed = 0,
                      !.lastMeasureTime = t,
                      !.displayRate = Zero]
       ELSE [e EXCEPT !.measureRateRef = e.measureRate]]

\* variant: the effect returns no cleanup
ElectricPlayCleanupNone(wd) == wd

\* the cleanup returned by the play/pause effect
ElectricPlayCleanup(wd) == CancelIfSet(wd, wd.electric.animationFrameId)

\* the body of useEffect(..., [isPlaying, runSimulation])
ElectricPlayBody(wd) ==
  IF wd.electric.isPlaying
    THEN RequestAnimationFrame(
           [wd EXCEPT !.electric.animationFrameId = wd.nextFrameId],
           "electric", wd.electric.voltage)
    ELSE CancelIfSet(wd, wd.electric.animationFrameId)

\* variant: pausing leaves the requested frame in place
ElectricPlayEffectKeepsFrame(wd) ==
  IF wd.electric.isPlaying THEN ElectricPlayBody(ElectricPlayCleanup(wd)) ELSE wd

\* a re-run of the play/pause effect: the previous cleanup, then the body
ElectricPlayEffect(wd) == ElectricPlayBody(ElectricPlayCleanup(wd))

\* the effects React runs after a render of ElectricCircuit that changed
\* state from `old'
ElectricEffects(wd, old, t) ==
  LET e  == wd.electric
      w1 == IF e.measureRate # old.measureRate
              THEN ElectricMeasureEffect(wd, t) ELSE wd
  IN IF e.isPlaying # old.isPlaying \/ e.voltage # old.voltage
       THEN ElectricPlayEffect(w1) ELSE w1

\* onClick={() => setIsPlaying(p => !p)}
ElectricTogglePlay(wd, t) ==
  ElectricEffects([wd EXCEPT !.electric.isPlaying = ~@], wd.electric, t)

\* variant: the play/pause effect does not depend on runSimulation, so the
\* scheduled tick keeps the voltage it captured
ElectricSetVoltageStale(wd, v, t) == [wd EXCEPT !.electric.voltage = v]

\* onChange={(e) => setVoltage(Number(e.target.value))}
ElectricSetVoltage(wd, v, t) ==
  ElectricEffects([wd EXCEPT !.electric.voltage = v], wd.electric, t)

\* onChange={(e) => setWireWidth(Number(e.target.value))}
ElectricSetWireWidth(wd, w, t) ==
  ElectricEffects([wd EXCEPT !.electric.wireWidth = w], wd.electric, t)

\* onChange={(e) => setMeasureRate(e.target.checked)}
ElectricSetMeasureRate(wd, checked, t) ==
  ElectricEffects([wd EXCEPT !.electric.measureRate = checked], wd.electric, t)

ElectricHandleReset(wd, t) ==
  ElectricEffects(
    [wd EXCEPT !.electric.isPlaying = FALSE,
               !.electric.voltage = INITIAL_VOLTAGE,
               !.electric.wireWidth = INITIAL_WIRE_WIDTH,
               !.electric.measureRate = FALSE,
               !.electric.particles = InitialEntities(ELECTRIC_PARTICLE_COUNT)],
    wd.electric, t)

\* the useState / useRef initial values of ElectricCircuit, mounted at time t
ElectricInitial(t) ==
  [isPlaying |-> TRUE, voltage |-> INITIAL_VOLTAGE, wireWidth |-> INITIAL_WIRE_WIDTH,
   measureRate |-> FALSE, displayRate |-> Zero,
   particles |-> InitialEntities(ELECTRIC_PARTICLE_COUNT),
   animationFrameId |-> 0, particlesCrossed |-> 0, lastMeasureTime |-> t,
   measureRateRef |-> FALSE]

\* the effects of the first render
ElectricMount(wd, t) == ElectricPlayBody(ElectricMeasureEffect(wd, t))

----------------------------------------------------------------------------
(* The rolling-window estimator of WaterCircuit and PlaygroundSlide *)

\* variant: nothing is pruned
KeepAllTimestamps(log, t) == log

\* crossingsTimestampsRef.current.filter(t => t >= fiveSecondsAgo),
\* with fiveSecondsAgo = now - 5000
RecentTimestamps(log, t) == SelectSeq(log, LAMBDA x : x >= t - 5000)

\* variant: the division without the guard on the time span ((n - 1) / 0 is
\* Infinity: a fraction with denominator 0)
RollingRateUnguarded(recent) ==
  IF Len(recent) > 1
    THEN LET span == recent[Len(recent)] - recent[1]
         IN IF span > 0 THEN Rat((Len(recent) - 1) * 1000, span)
                        ELSE [num |-> 1, den |-> 0]
    ELSE Zero

\* variant: the count of crossings instead of the count of intervals
RollingRateOffByOne(recent) ==
  IF Len(recent) > 1
    THEN LET span == recent[Len(recent)] - recent[1]
         IN IF span > 0 THEN Rat(Len(recent) * 1000, span) ELSE Zero
    ELSE Zero

\* let rate = 0; if (length > 1) { timeSpanSeconds = (last - first) / 1000;
\*   if (timeSpanSeconds > 0) rate = (length - 1) / timeSpanSeconds } -- per second
RollingRate(recent) ==
  IF Len(recent) > 1
    THEN LET span == recent[Len(recent)] - recent[1]
         IN IF span > 0 THEN Rat((Len(recent) - 1) * 1000, span) ELSE Zero
    ELSE Zero

\* product of two fractions
RatMul(a, b) == Rat(a.num * b.num, a.den * b.den)

\* 225 * widthFactor, widthFactor = 0.2 + 0.8 * ((width - 10) / 90)
WidthFactor225(width) == 45 + 2 * (width - 10)

\* k copies of t appended: one crossingsTimestampsRef.current.push(performance.now())
\* for each entity that crossed in this tick
Pushed(log, k, t) == log \o [i \in 1..k |-> t]

\* variant: a crossing is seen only when the step lands on the checkpoint
CrossedOnLanding(progress, newProgress) ==
  /\ Mod(progress) < CROSSING_POINT * Unit
  /\ Mod(newProgress) = CROSSING_POINT * Unit

\* oldProgressMod < CROSSING_POINT && newProgressMod >= CROSSING_POINT
Crossed(progress, newProgress) ==
  /\ Mod(progress) < CROSSING_POINT * Unit
  /\ Mod(newProgress) >= CROSSING_POINT * Unit

----------------------------------------------------------------------------
(* WaterCircuit *)

VOLUME_PER_PARTICLE == [num |-> 5, den |-> 100]

\* const pumpSpeed = 3 * widthFactor
PumpSpeed(pipeWidth) == (3 * WidthFactor225(pipeWidth) * Unit) \div 225

\* const gravitySpeed = (0.5 + (currentHeightDifference / 100) * 4) * widthFactor
GravitySpeed(heightDifference, pipeWidth) ==
  ((50 + 4 * heightDifference) * WidthFactor225(pipeWidth) * Unit) \div (100 * 225)

\* variant: gravity drives the water as far as the turbine
WaterSpeedToTurbine(progress, heightDifference, pipeWidth) ==
  IF Mod(progress) < CROSSING_POINT * Unit
    THEN GravitySpeed(heightDifference, pipeWidth)
    ELSE PumpSpeed(pipeWidth)

\* let speed = (currentProgressMod < 350) ? gravitySpeed : pumpSpeed
WaterSpeed(progress, heightDifference, pipeWidth) ==
  IF Mod(progress) < 350 * Unit
    THEN GravitySpeed(heightDifference, pipeWidth)
    ELSE PumpSpeed(pipeWidth)

\* variant: the pass runs as soon as 100 ms have gone by
WaterRatePassAtInterval(w, t) ==
  IF w.measureRateRef /\ t - w.lastUiUpdateTimeRef >= 100
    THEN LET recentTimestamps == RecentTimestamps(w.crossingsTimestampsRef, t)
         IN [w EXCEPT !.crossingsTimestampsRef = recentTimestamps,
                      !.displayRate = RatMul(RollingRate(recentTimestamps),
                                             VOLUME_PER_PARTICLE),
                      !.lastUiUpdateTimeRef = t]
    ELSE w

\* the throttled rate-estimation pass at the top of runSimulation
WaterRatePass(w, t) ==
  IF w.measureRateRef /\ t - w.lastUiUpdateTimeRef > 100
    THEN LET recentTimestamps == RecentTimestamps(w.crossingsTimestampsRef, t)
         IN [w EXCEPT !.crossingsTimestampsRef = recentTimestamps,
                      !.displayRate = RatMul(RollingRate(recentTimestamps),
                                             VOLUME_PER_PARTICLE),
                      !.lastUiUpdateTimeRef = t]
    ELSE w

\* variant: the tick does not schedule the next one
WaterRunSimulationOnce(wd, t) ==
  LET w  == wd.water
      w1 == WaterRatePass(w, t)
      h  == w.heightDifferenceRef
      pw == w.pipeWidthRef
      gravitySpeed == GravitySpeed(h, pw)
      newProgress(p) == p.progress + WaterSpeed(p.progress, h, pw)
      crossed == CountTrue([k \in DOMAIN w.particles |->
                   Crossed(w.particles[k].progress, newProgress(w.particles[k]))])
      shouldTurbineSpin ==
        \E k \in DOMAIN w.particles :
          Mod(w.particles[k].progress) < 350 * Unit /\ 10 * gravitySpeed > Unit
      w2 == [w1 EXCEPT
               !.particles = [k \in DOMAIN w.particles |->
                  [w.particles[k] EXCEPT !.progress = newProgress(w.particles[k])]],
               !.crossingsTimestampsRef =
                  IF w.measureRateRef THEN Pushed(@, crossed, t) ELSE @,
               !.turbineRotation =
                  IF shouldTurbineSpin THEN (@ + gravitySpeed * 2) % (360 * Unit) ELSE @,
               !.animationFrameId = wd.nextFrameId]
  IN [wd EXCEPT !.water = w2]

WaterRunSimulation(wd, t) ==
  LET w  == wd.water
      w1 == WaterRatePass(w, t)
      h  == w.heightDifferenceRef
      pw == w.pipeWidthRef
      gravitySpeed == GravitySpeed(h, pw)
      newProgress(p) == p.progress + WaterSpeed(p.progress, h, pw)
      crossed == CountTrue([k \in DOMAIN w.particles |->
                   Crossed(w.particles[k].progress, newProgress(w.particles[k]))])
      shouldTurbineSpin ==
        \E k \in DOMAIN w.particles :
          Mod(w.particles[k].progress) < 350 * Unit /\ 10 * gravitySpeed > Unit
      w2 == [w1 EXCEPT
               !.particles = [k \in DOMAIN w.particles |->
                  [w.particles[k] EXCEPT !.progress = newProgress(w.particles[k])]],
               !.crossingsTimestampsRef =
                  IF w.measureRateRef THEN Pushed(@, crossed, t) ELSE @,
               !.turbineRotation =
                  IF shouldTurbineSpin THEN (@ + gravitySpeed * 2) % (360 * Unit) ELSE @,
               !.animationFrameId = wd.nextFrameId]
  IN RequestAnimationFrame([wd EXCEPT !.water = w2], "water", 0)

\* useEffect(..., [measureRate])
WaterMeasureEffect(wd, t) ==
  LET w == wd.water IN
  [wd EXCEPT !.water =
     IF ~w.measureRate
       THEN [w EXCEPT !.measureRateRef = w.measureRate,
                      !.crossingsTimestampsRef = << >>,
                      !.displayRate = Zero]
       ELSE [w EXCEPT !.measureRateRef = w.measureRate,
                      !.crossingsTimestampsRef = << >>,
                      !.lastUiUpdateTimeRef = t]]

\* variant: the height ref is one object shared with PlaygroundSlide
WaterRefEffectsShared(wd) ==
  [wd EXCEPT !.water.heightDifferenceRef = wd.water.heightDifference,
             !.water.pipeWidthRef = wd.water.pipeWidth,
             !.playground.slideHeightRef = wd.water.heightDifference]

\* useEffect(..., [heightDifference]) and useEffect(..., [pipeWidth])
WaterRefEffects(wd) ==
  [wd EXCEPT !.water.heightDifferenceRef = wd.water.heightDifference,
             !.water.pipeWidthRef = wd.water.pipeWidth]

\* if (animationFrameId.current) { cancelAnimationFrame(...); animationFrameId.current = null }
WaterCancel(wd) ==
  IF wd.water.animationFrameId # 0
    THEN [CancelAnimationFrame(wd, wd.water.animationFrameId)
            EXCEPT !.water.animationFrameId = 0]
    ELSE wd

\* the body of useEffect(..., [isPlaying, runSimulation])
WaterPlayBody(wd) ==
  IF wd.water.isPlaying
    THEN RequestAnimationFrame(
           [wd EXCEPT !.water.animationFrameId = wd.nextFrameId], "water", 0)
    ELSE WaterCancel(wd)

\* a re-run of the play/pause effect: the previous cleanup, then the body
WaterPlayEffect(wd) == WaterPlayBody(WaterCancel(wd))

WaterEffects(wd, old, t) ==
  LET w  == wd.water
      w1 == IF w.measureRate # old.measureRate THEN WaterMeasureEffect(wd, t) ELSE wd
      w2 == WaterRefEffects(w1)
  IN IF w.isPlaying # old.isPlaying THEN WaterPlayEffect(w2) ELSE w2

WaterTogglePlay(wd, t) ==
  WaterEffects([wd EXCEPT !.water.isPlaying = ~@], wd.water, t)

WaterSetHeightDifference(wd, h, t) ==
  WaterEffects([wd EXCEPT !.water.heightDifference = h], wd.water, t)

WaterSetPipeWidth(wd, pw, t) ==
  WaterEffects([wd EXCEPT !.water.pipeWidth = pw], wd.water, t)

WaterSetMeasureRate(wd, checked, t) ==
  WaterEffects([wd EXCEPT !.water.measureRate = checked], wd.water, t)

\* variant: a reset that leaves the pipe width where the user put it
WaterHandleResetKeepsWidth(wd, t) ==
  WaterEffects(
    [wd EXCEPT !.water.isPlaying = FALSE,
               !.water.heightDifference = INITIAL_HEIGHT_DIFFERENCE,
               !.water.turbineRotation = 0,
               !.water.measureRate = FALSE,
               !.water.particles = InitialEntities(WATER_PARTICLE_COUNT)],
    wd.water, t)

WaterHandleReset(wd, t) ==
  WaterEffects(
    [wd EXCEPT !.water.isPlaying = FALSE,
               !.water.heightDifference = INITIAL_HEIGHT_DIFFERENCE,
               !.water.pipeWidth = INITIAL_PIPE_WIDTH,
               !.water.turbineRotation = 0,
               !.water.measureRate = FALSE,
               !.water.particles = InitialEntities(WATER_PARTICLE_COUNT)],
    wd.water, t)

WaterInitial ==
  [isPlaying |-> TRUE, heightDifference |-> INITIAL_HEIGHT_DIFFERENCE,
   pipeWidth |-> INITIAL_PIPE_WIDTH, turbineRotation |-> 0,
   measureRate |-> FALSE, displayRate |-> Zero,
   particles |-> InitialEntities(WATER_PARTICLE_COUNT),
   animationFrameId |-> 0,
   heightDifferenceRef |-> INITIAL_HEIGHT_DIFFERENCE,
   pipeWidthRef |-> INITIAL_PIPE_WIDTH,
   crossingsTimestampsRef |-> << >>, lastUiUpdateTimeRef |-> 0,
   measureRateRef |-> FALSE]

WaterMount(wd, t) == WaterPlayBody(WaterRefEffects(WaterMeasureEffect(wd, t)))

----------------------------------------------------------------------------
(* PlaygroundSlide *)

\* const slideSpeed = (1.5 + (currentSlideHeight / 100) * 4) * widthFactor
SlideSpeed(slideHeight, slideWidth) ==
  ((150 + 4 * slideHeight) * WidthFactor225(slideWidth) * Unit) \div (100 * 225)

\* const runSpeed = 2 * widthFactor
RunSpeed(slideWidth) == (2 * WidthFactor225(slideWidth) * Unit) \div 225

\* const elevatorSpeed = 3 * widthFactor
ElevatorSpeed(slideWidth) == (3 * WidthFactor225(slideWidth) * Unit) \div 225

\* variant: the kids run at the elevator's speed
KidSpeedNoRun(progress, slideHeight, slideWidth) ==
  IF Mod(progress) < 300 * Unit THEN SlideSpeed(slideHeight, slideWidth)
  ELSE ElevatorSpeed(slideWidth)

\* if (oldProgressMod < 300) slideSpeed else if (oldProgressMod < 600) runSpeed
\* else elevatorSpeed
KidSpeed(progress, slideHeight, slideWidth) ==
  IF Mod(progress) < 300 * Unit THEN SlideSpeed(slideHeight, slideWidth)
  ELSE IF Mod(progress) < 600 * Unit THEN RunSpeed(slideWidth)
  ELSE ElevatorSpeed(slideWidth)

\* the throttled rate-estimation pass at the top of runSimulation
PlaygroundRatePass(g, t) ==
  IF g.measureRateRef /\ t - g.lastUiUpdateTimeRef > 100
    THEN LET recentTimestamps == RecentTimestamps(g.crossingsTimestampsRef, t)
         IN [g EXCEPT !.crossingsTimestampsRef = recentTimestamps,
                      !.displayRate = RollingRate(recentTimestamps),
                      !.lastUiUpdateTimeRef = t]
    ELSE g

PlaygroundRunSimulation(wd, t) ==
  LET g  == wd.playground
      g1 == PlaygroundRatePass(g, t)
      newProgress(k) == k.progress + KidSpeed(k.progress, g.slideHeightRef, g.slideWidthRef)
      crossed == CountTrue([i \in DOMAIN g.kids |->
                   Crossed(g.kids[i].progress, newProgress(g.kids[i]))])
      g2 == [g1 EXCEPT
               !.kids = [i \in DOMAIN g.kids |->
                  [g.kids[i] EXCEPT !.progress = newProgress(g.kids[i])]],
               !.crossingsTimestampsRef =
                  IF g.measureRateRef THEN Pushed(@, crossed, t) ELSE @,
               !.animationFrameId = wd.nextFrameId]
  IN RequestAnimationFrame([wd EXCEPT !.playground = g2], "playground", 0)

\* variant: switching measurement off keeps the crossing log
PlaygroundMeasureEffectKeepsLog(wd, t) ==
  LET g == wd.playground IN
  [wd EXCEPT !.playground =
     IF ~g.measureRate
       THEN [g EXCEPT !.measureRateRef = g.measureRate,
                      !.displayRate = Zero]
       ELSE [g EXCEPT !.measureRateRef = g.measureRate,
                      !.crossingsTimestampsRef = << >>,
                      !.lastUiUpdateTimeRef = t]]

\* useEffect(..., [measureRate])
PlaygroundMeasureEffect(wd, t) ==
  LET g == wd.playground IN
  [wd EXCEPT !.playground =
     IF ~g.measureRate
       THEN [g EXCEPT !.measureRateRef = g.measureRate,
                      !.crossingsTimestampsRef = << >>,
                      !.displayRate = Zero]
       ELSE [g EXCEPT !.measureRateRef = g.measureRate,
                      !.crossingsTimestampsRef = << >>,
                      !.lastUiUpdateTimeRef = t]]

\* useEffect(..., [slideHeight]) and useEffect(..., [slideWidth])
PlaygroundRefEffects(wd) ==
  [wd EXCEPT !.playground.slideHeightRef = wd.playground.slideHeight,
             !.playground.slideWidthRef = wd.playground.slideWidth]

\* variant: the cleanup cancels nothing
PlaygroundPlayCleanupNone(wd) == wd

\* the cleanup returned by the play/pause effect
PlaygroundPlayCleanup(wd) == CancelIfSet(wd, wd.playground.animationFrameId)

\* the body of useEffect(..., [isPlaying, runSimulation])
PlaygroundPlayBody(wd) ==
  IF wd.playground.isPlaying
    THEN RequestAnimationFrame(
           [wd EXCEPT !.playground.animationFrameId = wd.nextFrameId], "playground", 0)
    ELSE CancelIfSet(wd, wd.playground.animationFrameId)

PlaygroundPlayEffect(wd) == PlaygroundPlayBody(PlaygroundPlayCleanup(wd))

PlaygroundEffects(wd, old, t) ==
  LET g  == wd.playground
      w1 == IF g.measureRate # old.measureRate
              THEN PlaygroundMeasureEffect(wd, t) ELSE wd
      w2 == PlaygroundRefEffects(w1)
  IN IF g.isPlaying # old.isPlaying THEN PlaygroundPlayEffect(w2) ELSE w2

PlaygroundTogglePlay(wd, t) ==
  PlaygroundEffects([wd EXCEPT !.playground.isPlaying = ~@], wd.playground, t)

PlaygroundSetSlideHeight(wd, h, t) ==
  PlaygroundEffects([wd EXCEPT !.playground.slideHeight = h], wd.playground, t)

PlaygroundSetSlideWidth(wd, sw, t) ==
  PlaygroundEffects([wd EXCEPT !.playground.slideWidth = sw], wd.playground, t)

PlaygroundSetMeasureRate(wd, checked, t) ==
  PlaygroundEffects([wd EXCEPT !.playground.measureRate = checked], wd.playground, t)

PlaygroundHandleReset(wd, t) ==
  PlaygroundEffects(
    [wd EXCEPT !.playground.isPlaying = FALSE,
               !.playground.slideHeight = INITIAL_SLIDE_HEIGHT,
               !.playground.slideWidth = INITIAL_SLIDE_WIDTH,
               !.playground.measureRate = FALSE,
               !.playground.kids = InitialEntities(KID_COUNT)],
    wd.playground, t)

PlaygroundInitial ==
  [isPlaying |-> TRUE, slideHeight |-> INITIAL_SLIDE_HEIGHT,
   slideWidth |-> INITIAL_SLIDE_WIDTH,
   measureRate |-> FALSE, displayRate |-> Zero,
   kids |-> InitialEntities(KID_COUNT),
   animationFrameId |-> 0,
   slideHeightRef |-> INITIAL_SLIDE_HEIGHT, slideWidthRef |-> INITIAL_SLIDE_WIDTH,
   crossingsTimestampsRef |-> << >>, lastUiUpdateTimeRef |-> 0,
   measureRateRef |-> FALSE]

PlaygroundMount(wd, t) ==
  PlaygroundPlayBody(PlaygroundRefEffects(PlaygroundMeasureEffect(wd, t)))

----------------------------------------------------------------------------
(* The page: App mounts the three components (all panels are visible at    *)
(* the start), the display refreshes, the user operates one panel.         *)

World ==
  [electric |-> electric, water |-> water, playground |-> playground,
   rafQueue |-> rafQueue, nextFrameId |-> nextFrameId]

Commit(wd) ==
  /\ electric' = wd.electric
  /\ water' = wd.water
  /\ playground' = wd.playground
  /\ rafQueue' = wd.rafQueue
  /\ nextFrameId' = wd.nextFrameId

\* the callback runs and leaves the queue
RunCallback(wd, cb, t) ==
  LET w0 == [wd EXCEPT !.rafQueue = @ \ {cb}] IN
  CASE cb.owner = "electric"   -> ElectricRunSimulation(w0, cb.voltage, t)
    [] cb.owner = "water"      -> WaterRunSimulation(w0, t)
    [] cb.owner = "playground" -> PlaygroundRunSimulation(w0, t)

\* one display refresh: the callbacks pending at its start run in the order
\* they were requested; the ones they request wait for the next refresh
RECURSIVE RunCallbacks(_, _, _)
RunCallbacks(wd, cbs, t) ==
  IF cbs = {} THEN wd
  ELSE LET cb == CHOOSE c \in cbs : \A d \in cbs : c.id <= d.id
       IN RunCallbacks(RunCallback(wd, cb, t), cbs \ {cb}, t)

\* the first render of App at time t: the effects of ElectricCircuit,
\* WaterCircuit and PlaygroundSlide run in that order
Mounted(t) ==
  PlaygroundMount(WaterMount(ElectricMount(
    [electric |-> ElectricInitial(t), water |-> WaterInitial,
     playground |-> PlaygroundInitial, rafQueue |-> {}, nextFrameId |-> 1], t), t), t)

\* useState(['electric', 'water', 'playground'])
InitialOrder == <<"electric", "water", "playground">>

\* null, for draggedItem and dragOverItem
NoItem == "null"

\* useState({ electric: true, water: true, playground: true })
AllVisible == [s \in Sims |-> TRUE]

\* const isSingleView = visibleCount === 1
IsSingleView(vis) == Cardinality({s \in Sims : vis[s]}) = 1

\* Component s leaves the tree when its panel is hidden, and also when the
\* page changes between the single view and the grid: there the component
\* is the first child of its panel's div in the one and the second (after
\* the drag handle) in the other, so React does not keep the instance.
Leaves(old, new, s) == old[s] /\ (~new[s] \/ IsSingleView(old) # IsSingleView(new))

\* a new instance of s enters the tree
Enters(old, new, s) == new[s] /\ (~old[s] \/ IsSingleView(old) # IsSingleView(new))

\* what React runs when an instance of s is unmounted: the cleanup of its
\* play/pause effect
Unmount(wd, s) ==
  CASE s = "electric"   -> ElectricPlayCleanup(wd)
    [] s = "water"      -> WaterCancel(wd)
    [] s = "playground" -> PlaygroundPlayCleanup(wd)

\* a new instance of s: its initial state, then the effects of its first render
MountOne(wd, s, t) ==
  CASE s = "electric"   -> ElectricMount([wd EXCEPT !.electric = ElectricInitial(t)], t)
    [] s = "water"      -> WaterMount([wd EXCEPT !.water = WaterInitial], t)
    [] s = "playground" -> PlaygroundMount([wd EXCEPT !.playground = PlaygroundInitial], t)

\* the commit of the render in which visibility went from old to new: the
\* cleanups of the instances that leave, then the effects of those that
\* enter, each in the order of the panels
Reconcile(wd, old, new, t) ==
  LET u1 == IF Leaves(old, new, "electric") THEN Unmount(wd, "electric") ELSE wd
      u2 == IF Leaves(old, new, "water") THEN Unmount(u1, "water") ELSE u1
      u3 == IF Leaves(old, new, "playground") THEN Unmount(u2, "playground") ELSE u2
      m1 == IF Enters(old, new, "electric") THEN MountOne(u3, "electric", t) ELSE u3
      m2 == IF Enters(old, new, "water") THEN MountOne(m1, "water", t) ELSE m1
  IN IF Enters(old, new, "playground") THEN MountOne(m2, "playground", t) ELSE m2

NoArgs == [kind |-> "none"]

\* what the model adds to the program's state, at the start of a behaviour
Harness ==
  /\ focus \in Sims
  /\ inputs = 0
  /\ frames = 0
  /\ lastOp = [op |-> "init", sim |-> "all"]
  /\ args = NoArgs
  /\ result = NoArgs

Init ==
  /\ now = 0
  /\ visibility = AllVisible
  /\ simulationOrder = InitialOrder
  /\ draggedItem = NoItem
  /\ dragOverItem = NoItem
  /\ electric = Mounted(0).electric
  /\ water = Mounted(0).water
  /\ playground = Mounted(0).playground
  /\ rafQueue = Mounted(0).rafQueue
  /\ nextFrameId = Mounted(0).nextFrameId
  /\ Harness

\* a display refresh dt ms after the previous step
Frame(dt) ==
  /\ frames < MaxFrames
  /\ now' = now + dt
  /\ Commit(RunCallbacks(World, rafQueue, now + dt))
  /\ frames' = frames + 1
  /\ lastOp' = [op |-> "frame", sim |-> "all"]
  /\ UNCHANGED <<visibility, simulationOrder, draggedItem, dragOverItem, focus, inputs, args, result>>

\* a user input on the panel in focus, handled by `handler'
Input(op, wd) ==
  /\ inputs < MaxInputs
  /\ visibility[focus]
  /\ Commit(wd)
  /\ inputs' = inputs + 1
  /\ lastOp' = [op |-> op, sim |-> focus]
  /\ UNCHANGED <<visibility, simulationOrder, draggedItem, dragOverItem, now, focus, frames, args, result>>

TogglePlay ==
  Input("togglePlay",
        CASE focus = "electric"   -> ElectricTogglePlay(World, now)
          [] focus = "water"      -> WaterTogglePlay(World, now)
          [] focus = "playground" -> PlaygroundTogglePlay(World, now))

HandleReset ==
  Input("reset",
        CASE focus = "electric"   -> ElectricHandleReset(World, now)
          [] focus = "water"      -> WaterHandleReset(World, now)
          [] focus = "playground" -> PlaygroundHandleReset(World, now))

ToggleMeasureRate ==
  Input("measure",
        CASE focus = "electric"   -> ElectricSetMeasureRate(World, ~electric.measureRate, now)
          [] focus = "water"      -> WaterSetMeasureRate(World, ~water.measureRate, now)
          [] focus = "playground" ->
               PlaygroundSetMeasureRate(World, ~playground.measureRate, now))

SetVoltage(v) ==
  /\ focus = "electric" /\ v # electric.voltage
  /\ Input("slider", ElectricSetVoltage(World, v, now))

SetWireWidth(w) ==
  /\ focus = "electric" /\ w # electric.wireWidth
  /\ Input("slider", ElectricSetWireWidth(World, w, now))

SetHeightDifference(h) ==
  /\ focus = "water" /\ h # water.heightDifference
  /\ Input("slider", WaterSetHeightDifference(World, h, now))

SetPipeWidth(w) ==
  /\ focus = "water" /\ w # water.pipeWidth
  /\ Input("slider", WaterSetPipeWidth(World, w, now))

SetSlideHeight(h) ==
  /\ focus = "playground" /\ h # playground.slideHeight
  /\ Input("slider", PlaygroundSetSlideHeight(World, h, now))

SetSlideWidth(w) ==
  /\ focus = "playground" /\ w # playground.slideWidth
  /\ Input("slider", PlaygroundSetSlideWidth(World, w, now))

Next ==
  \/ \E dt \in Dts : Frame(dt)
  \/ TogglePlay
  \/ HandleReset
  \/ ToggleMeasureRate
  \/ \E v \in VoltageValues : SetVoltage(v)
  \/ \E w \in RangeValues : SetWireWidth(w)
  \/ \E h \in RangeValues : SetHeightDifference(h)
  \/ \E w \in RangeValues : SetPipeWidth(w)
  \/ \E h \in RangeValues : SetSlideHeight(h)
  \/ \E w \in RangeValues : SetSlideWidth(w)

Spec == Init /\ [][Next]_vars

----------------------------------------------------------------------------
(* The page with its visibility switches: the user shows and hides panels, *)
(* and pauses or measures in the panel in focus.                           *)

\* handleVisibilityChange for the checkbox of panel `key': a controlled
\* checkbox, so `checked' is the opposite of what is shown
HandleVisibilityChange(key) ==
  /\ inputs < MaxInputs
  /\ visibility' = [visibility EXCEPT ![key] = ~@]
  /\ Commit(Reconcile(World, visibility, [visibility EXCEPT ![key] = ~@], now))
  /\ inputs' = inputs + 1
  /\ lastOp' = [op |-> "visibility", sim |-> key]
  /\ UNCHANGED <<simulationOrder, draggedItem, dragOverItem, now, focus, frames, args,
                 result>>

NextPage ==
  \/ \E dt \in Dts : Frame(dt)
  \/ TogglePlay
  \/ ToggleMeasureRate
  \/ \E key \in Sims : HandleVisibilityChange(key)

SpecPage == Init /\ [][NextPage]_vars

----------------------------------------------------------------------------
(* The page with its drag handles: in the grid each visible panel takes    *)
(* dragover, dragleave and drop events and its handle dragstart and        *)
(* dragend, in any order the browser sends them (a drag may also come from *)
(* outside the page, so that a panel sees dragover and drop with nothing   *)
(* dragged).                                                               *)

\* newOrder.indexOf(key), counted from 1
IndexOf(order, key) == CHOOSE i \in DOMAIN order : order[i] = key

\* newOrder.splice(index, 1)
Removed(order, index) == SubSeq(order, 1, index - 1) \o SubSeq(order, index + 1, Len(order))

\* newOrder.splice(index, 0, key): at the end if index is past it
Inserted(order, index, key) ==
  IF index > Len(order)
    THEN Append(order, key)
    ELSE SubSeq(order, 1, index - 1) \o <<key>> \o SubSeq(order, index, Len(order))

\* variant: the drop index is looked up after the dragged panel was taken out
NewOrderAfterRemoval(order, dragged, dropKey) ==
  LET without == Removed(order, IndexOf(order, dragged))
  IN Inserted(without, IndexOf(without, dropKey), dragged)

\* the order handleDrop computes: both indexes are looked up first
NewOrder(order, dragged, dropKey) ==
  LET draggedIndex == IndexOf(order, dragged)
      dropIndex == IndexOf(order, dropKey)
  IN Inserted(Removed(order, draggedIndex), dropIndex, dragged)

\* an event on the panel of `key' or on its handle: they exist in the grid
\* for the visible panels
PanelEvent(op, key) ==
  /\ ~IsSingleView(visibility)
  /\ visibility[key]
  /\ lastOp' = [op |-> op, sim |-> key]
  /\ UNCHANGED <<electric, water, playground, visibility, now, rafQueue, nextFrameId,
                 focus, inputs, frames, args, result>>

HandleDragStart(key) ==
  /\ PanelEvent("dragStart", key)
  /\ draggedItem' = key
  /\ UNCHANGED <<simulationOrder, dragOverItem>>

HandleDragOver(key) ==
  /\ PanelEvent("dragOver", key)
  /\ dragOverItem' = IF draggedItem # key THEN key ELSE dragOverItem
  /\ UNCHANGED <<simulationOrder, draggedItem>>

HandleDragLeave(key) ==
  /\ PanelEvent("dragLeave", key)
  /\ dragOverItem' = NoItem
  /\ UNCHANGED <<simulationOrder, draggedItem>>

HandleDrop(dropKey) ==
  /\ PanelEvent("drop", dropKey)
  /\ simulationOrder' =
       IF draggedItem = NoItem \/ draggedItem = dropKey
         THEN simulationOrder
         ELSE NewOrder(simulationOrder, draggedItem, dropKey)
  /\ draggedItem' = NoItem
  /\ dragOverItem' = NoItem

HandleDragEnd(key) ==
  /\ PanelEvent("dragEnd", key)
  /\ draggedItem' = NoItem
  /\ dragOverItem' = NoItem
  /\ UNCHANGED simulationOrder

NextDrag ==
  \E key \in Sims :
    \/ HandleDragStart(key)
    \/ HandleDragOver(key)
    \/ HandleDragLeave(key)
    \/ HandleDrop(key)
    \/ HandleDragEnd(key)

SpecDrag == Init /\ [][NextDrag]_vars

----------------------------------------------------------------------------
(* Playback without end.  One simulation is on the page alone (the user    *)
(* has hidden the other two), it is never paused, reset or hidden, the     *)
(* user operates its sliders and its measurement switch during the first   *)
(* MaxFrames refreshes, and the display keeps refreshing for ever.  To     *)
(* keep the states finite the state is rewritten after every refresh       *)
(* without changing what any later step does: clock readings are kept      *)
(* relative to the current time (`now' stays put and every stored time     *)
(* moves back by the length of the refresh; a time 1000 ms or more back    *)
(* has passed every threshold it is compared with and stays at -1000),     *)
(* frame handles are kept relative to the next handle, and progress is     *)
(* kept mod TOTAL_PATH_LENGTH (speeds, crossings and positions depend on   *)
(* progress only through that remainder), and the angle of the turbine,    *)
(* which a tick only adds to and only the drawing reads, is put back to 0. *)

\* the one refresh interval of this specification: the rate pass of water
\* and playground then runs in every tick and prunes the log
LiveDt == CHOOSE d \in Dts : \A e \in Dts : d >= e

\* slider values the user picks here
LiveValues == {100}

Earlier(time, dt) == IF time - dt <= 0 - 1000 THEN 0 - 1000 ELSE time - dt

Rebased(handle, k) == IF handle = 0 THEN 0 ELSE IF handle - k < 1 THEN 1 ELSE handle - k

Wrapped(entities) == [k \in DOMAIN entities |-> [entities[k] EXCEPT !.progress = Mod(@)]]

Rewound(wd, dt, k) ==
  [wd EXCEPT
     !.electric = [@ EXCEPT !.lastMeasureTime = Earlier(@, dt),
                            !.animationFrameId = Rebased(@, k),
                            !.particles = Wrapped(@)],
     !.water = [@ EXCEPT !.turbineRotation = 0,
                         !.lastUiUpdateTimeRef = Earlier(@, dt),
                         !.crossingsTimestampsRef = [i \in DOMAIN @ |-> @[i] - dt],
                         !.animationFrameId = Rebased(@, k),
                         !.particles = Wrapped(@)],
     !.playground = [@ EXCEPT !.lastUiUpdateTimeRef = Earlier(@, dt),
                              !.crossingsTimestampsRef = [i \in DOMAIN @ |-> @[i] - dt],
                              !.animationFrameId = Rebased(@, k),
                              !.kids = Wrapped(@)],
     !.rafQueue = {[cb EXCEPT !.id = Rebased(@, k)] : cb \in @},
     !.nextFrameId = @ - k]

\* the visibility in which only s is shown
Only(s) == [r \in Sims |-> r = s]

\* the page after the user has hidden, at time t, the two panels other than s
ShownAlone(s, t) ==
  LET first == CHOOSE r \in Sims \ {s} : TRUE
      one == [AllVisible EXCEPT ![first] = FALSE]
  IN Reconcile(Reconcile(Mounted(t), AllVisible, one, t), one, Only(s), t)

InitLive ==
  /\ now = 0
  /\ Harness
  /\ visibility = Only(focus)
  /\ simulationOrder = InitialOrder
  /\ draggedItem = NoItem
  /\ dragOverItem = NoItem
  /\ electric = ShownAlone(focus, 0).electric
  /\ water = ShownAlone(focus, 0).water
  /\ playground = ShownAlone(focus, 0).playground
  /\ rafQueue = ShownAlone(focus, 0).rafQueue
  /\ nextFrameId = ShownAlone(focus, 0).nextFrameId

\* what marks a step as a display refresh: `frames' counts the first
\* MaxFrames refreshes and then alternates, so that every refresh is a step
Refreshed ==
  /\ frames' = IF frames = MaxFrames + 1 THEN MaxFrames ELSE frames + 1
  /\ lastOp' = [op |-> "frame", sim |-> "all"]

\* a display refresh
FrameLive ==
  LET after == RunCallbacks(World, rafQueue, now + LiveDt) IN
  /\ Refreshed
  /\ Commit(Rewound(after, LiveDt, after.nextFrameId - nextFrameId))
  /\ UNCHANGED <<visibility, simulationOrder, draggedItem, dragOverItem, now, focus,
                 inputs, args, result>>

NextLive ==
  \/ FrameLive
  \/ /\ frames < MaxFrames
     /\ \/ ToggleMeasureRate
        \/ \E v \in VoltageValues : SetVoltage(v)
        \/ \E h \in LiveValues : SetHeightDifference(h)
        \/ \E w \in LiveValues : SetPipeWidth(w)
        \/ \E h \in LiveValues : SetSlideHeight(h)
        \/ \E w \in LiveValues : SetSlideWidth(w)

\* the browser refreshes the display again and again: FrameLive is enabled
\* in every state and is the one step of NextLive that is Refreshed, so the
\* fairness condition is weak fairness of FrameLive
SpecLive == InitLive /\ [][NextLive]_vars /\ WF_<<frames, lastOp>>(Refreshed)

----------------------------------------------------------------------------
(* The same page after WarmFrames regular display refreshes without user   *)
(* input: the entities are under way and the next checkpoint crossings are *)
(* a few refreshes ahead.                                                  *)

RegularDt == CHOOSE d \in Dts : \A e \in Dts : d <= e

RECURSIVE Played(_, _, _)
Played(wd, n, t) ==
  IF n = 0 THEN wd
  ELSE LET after == RunCallbacks(wd, wd.rafQueue, t + RegularDt)
       IN IF after.nextFrameId > wd.nextFrameId
            THEN Played(after, n - 1, t + RegularDt)
            ELSE after

InitRun ==
  LET wd == Played(Mounted(0), WarmFrames, 0) IN
  /\ now = WarmFrames * RegularDt
  /\ visibility = AllVisible
  /\ simulationOrder = InitialOrder
  /\ draggedItem = NoItem
  /\ dragOverItem = NoItem
  /\ electric = wd.electric
  /\ water = wd.water
  /\ playground = wd.playground
  /\ rafQueue = wd.rafQueue
  /\ nextFrameId = wd.nextFrameId
  /\ Harness

SpecRun == InitRun /\ [][Next]_vars

----------------------------------------------------------------------------
(* Views of the three components used by the properties *)

Playing(s) ==
  CASE s = "electric" -> electric.isPlaying
    [] s = "water" -> water.isPlaying
    [] s = "playground" -> playground.isPlaying

Measuring(s) ==
  CASE s = "electric" -> electric.measureRate
    [] s = "water" -> water.measureRate
    [] s = "playground" -> playground.measureRate

MeasureRef(s) ==
  CASE s = "electric" -> electric.measureRateRef
    [] s = "water" -> water.measureRateRef
    [] s = "playground" -> playground.measureRateRef

DisplayRate(s) ==
  CASE s = "electric" -> electric.displayRate
    [] s = "water" -> water.displayRate
    [] s = "playground" -> playground.displayRate

Entities(s) ==
  CASE s = "electric" -> electric.particles
    [] s = "water" -> water.particles
    [] s = "playground" -> playground.kids

EntityCount(s) ==
  CASE s = "electric" -> ELECTRIC_PARTICLE_COUNT
    [] s = "water" -> WATER_PARTICLE_COUNT
    [] s = "playground" -> KID_COUNT

\* the scheduled ticks of component s
Pending(s) == {cb \in rafQueue : cb.owner = s}

\* a display refresh has just run a tick of component s
Ticked(s) == lastOp'.op = "frame" /\ Pending(s) # {}

----------------------------------------------------------------------------
(* C1: once playback of a simulation is paused, no tick of it is scheduled *)
(* and no step other than a reset changes the progress of its entities,    *)
(* until playback is resumed.                                              *)

C1_PausedNoTick ==
  /\ [](\A s \in Sims : ~Playing(s) => Pending(s) = {})
  /\ [][\A s \in Sims :
          (~Playing(s) /\ lastOp'.op # "reset") => Entities(s)' = Entities(s)]_vars

\* a display refresh went by while a simulation that had played was paused
C1_Witness ==
  \E s \in Sims :
    /\ ~Playing(s)
    /\ lastOp.op = "frame"
    /\ Entities(s) # InitialEntities(EntityCount(s))

----------------------------------------------------------------------------
(* C2: right after reset the simulation is paused, every entity i is at    *)
(* progress (i / count) * 1000, both parameters are 50, measurement is off *)
(* and the displayed rate is 0.                                            *)

EvenlySpaced(entities, count) ==
  /\ Len(entities) = count
  /\ \A k \in 1..count :
       /\ entities[k].id = k - 1
       /\ entities[k].progress * count = (k - 1) * 1000 * Unit

C2_ResetState ==
  lastOp.op = "reset" =>
    /\ ~Playing(lastOp.sim)
    /\ ~Measuring(lastOp.sim)
    /\ DisplayRate(lastOp.sim).num = 0
    /\ EvenlySpaced(Entities(lastOp.sim), EntityCount(lastOp.sim))
    /\ lastOp.sim = "electric" => electric.voltage = 50 /\ electric.wireWidth = 50
    /\ lastOp.sim = "water" => water.heightDifference = 50 /\ water.pipeWidth = 50
    /\ lastOp.sim = "playground" =>
         playground.slideHeight = 50 /\ playground.slideWidth = 50

\* a reset after the simulation has played and another input was made
C2_Witness ==
  /\ lastOp.op = "reset"
  /\ inputs >= 2
  /\ frames >= 1

----------------------------------------------------------------------------
(* C3: while measurement is disabled the displayed rate is 0 and the       *)
(* estimator holds nothing: the timestamp log of water and playground is   *)
(* empty, the crossing counter of electric is 0.                           *)

----------------------------------------------------------------------------
(* C4: in a tick that runs with measurement on, the number of crossings    *)
(* recorded equals the number of entities that passed the detection point  *)
(* in that tick, and no entity passes it twice in a tick: one detection    *)
(* per entity and lap, whether or not the step lands on the point.  The    *)
(* detection point is at 450 in water and playground and at the wrap of    *)
(* the path (1000 = 0) in electric.                                        *)

DetectionPoint(s) == IF s = "electric" THEN 0 ELSE CROSSING_POINT * Unit

\* how many times an entity at `progress' has reached detection point c
Laps(progress, c) == (progress - c) \div PathLength

\* the entities of s that pass the detection point in this step
Passing(s) ==
  {k \in 1..EntityCount(s) :
     Laps(Entities(s)'[k].progress, DetectionPoint(s))
       > Laps(Entities(s)[k].progress, DetectionPoint(s))}

\* the crossings component s records in this step
Recorded(s) ==
  CASE s = "electric" ->
         electric'.particlesCrossed
           - (IF electric'.lastMeasureTime = now' THEN 0 ELSE electric.particlesCrossed)
    [] s = "water" ->
         Cardinality({i \in DOMAIN water'.crossingsTimestampsRef :
                        water'.crossingsTimestampsRef[i] = now'})
    [] s = "playground" ->
         Cardinality({i \in DOMAIN playground'.crossingsTimestampsRef :
                        playground'.crossingsTimestampsRef[i] = now'})

C4_OncePerLap ==
  [][\A s \in Sims :
       (Ticked(s) /\ MeasureRef(s)) =>
         /\ Recorded(s) = Cardinality(Passing(s))
         /\ \A k \in 1..EntityCount(s) :
              Laps(Entities(s)'[k].progress, DetectionPoint(s))
                <= Laps(Entities(s)[k].progress, DetectionPoint(s)) + 1]_vars

\* a tick has just recorded a crossing of an entity whose step jumped over
\* the checkpoint without landing on it
C4_Witness ==
  /\ lastOp.op = "frame"
  /\ water.crossingsTimestampsRef # << >>
  /\ water.crossingsTimestampsRef[Len(water.crossingsTimestampsRef)] = now
  /\ \E k \in 1..WATER_PARTICLE_COUNT :
       /\ Mod(water.particles[k].progress) > CROSSING_POINT * Unit
       /\ Mod(water.particles[k].progress) < CROSSING_POINT * Unit + PumpSpeed(water.pipeWidthRef)

----------------------------------------------------------------------------
(* C6: in a tick of the electric circuit with measurement on and at least  *)
(* 1000 ms since the bucket start, displayRate becomes 0.01 times the      *)
(* crossings counted since the bucket start, the bucket start becomes the  *)
(* current time and the counter restarts from 0 (it then counts the        *)
(* crossings of this tick); any other tick leaves displayRate and the      *)
(* bucket start unchanged.                                                 *)

C6_BucketReport ==
  [][Ticked("electric") =>
       IF electric.measureRateRef /\ now' - electric.lastMeasureTime >= 1000
         THEN /\ electric'.displayRate.num * 100
                   = electric.particlesCrossed * electric'.displayRate.den
              /\ electric'.lastMeasureTime = now'
              /\ electric'.particlesCrossed = Cardinality(Passing("electric"))
         ELSE /\ electric'.displayRate = electric.displayRate
              /\ electric'.lastMeasureTime = electric.lastMeasureTime]_vars

\* a bucket has just been reported with at least one crossing in it
C6_Witness ==
  /\ lastOp.op = "frame"
  /\ electric.measureRateRef
  /\ electric.lastMeasureTime = now
  /\ electric.displayRate.num > 0

----------------------------------------------------------------------------
(* The rolling-window estimator on its own: the crossing log of            *)
(* WaterCircuit and PlaygroundSlide is drawn from the non-decreasing       *)
(* sequences of crossing times (performance.now() never decreases, and     *)
(* entities that cross in one tick push the same time), measurement is on, *)
(* and the rate-estimation pass of runSimulation is run at later times.    *)

SortedLogs ==
  UNION {{l \in [1..n -> EstTimes] : \A i \in 1..(n - 1) : l[i] <= l[i + 1]} :
           n \in 0..MaxLog}

InitEst ==
  \E l \in SortedLogs :
    LET wd == Mounted(0) IN
    /\ now = IF l = << >> THEN 0 ELSE l[Len(l)]
    /\ visibility = AllVisible
    /\ simulationOrder = InitialOrder
    /\ draggedItem = NoItem
    /\ dragOverItem = NoItem
    /\ electric = wd.electric
    /\ water = [wd.water EXCEPT !.measureRate = TRUE, !.measureRateRef = TRUE,
                                !.crossingsTimestampsRef = l]
    /\ playground = [wd.playground EXCEPT !.measureRate = TRUE, !.measureRateRef = TRUE,
                                          !.crossingsTimestampsRef = l]
    /\ rafQueue = wd.rafQueue
    /\ nextFrameId = wd.nextFrameId
    /\ focus = "water"
    /\ inputs = 0
    /\ frames = 0
    /\ lastOp = [op |-> "init", sim |-> "all"]
    /\ args = [kind |-> "estimator", log |-> l]
    /\ result = NoArgs

\* the rate-estimation pass of both components, dt ms later
Query(dt) ==
  /\ frames < MaxFrames
  /\ now' = now + dt
  /\ water' = WaterRatePass(water, now + dt)
  /\ playground' = PlaygroundRatePass(playground, now + dt)
  /\ frames' = frames + 1
  /\ lastOp' = [op |-> "query", sim |-> "all"]
  /\ result' = [kind |-> "estimator",
                passed |-> {s \in {"water"} : now + dt - water.lastUiUpdateTimeRef > 100}
                           \cup {s \in {"playground"} :
                                   now + dt - playground.lastUiUpdateTimeRef > 100}]
  /\ UNCHANGED <<electric, visibility, simulationOrder, draggedItem, dragOverItem, rafQueue, nextFrameId, focus, inputs, args>>

NextEst == \E dt \in QueryDelays : Query(dt)

SpecEst == InitEst /\ [][NextEst]_vars

----------------------------------------------------------------------------
(* C5: a rate-estimation pass computes (n - 1) / spanSeconds from the n    *)
(* retained timestamps, and 0 when fewer than 2 are retained.              *)

\* the last query ran the pass of component s (it was not throttled), so the
\* component holds what the pass left behind
PassDone(s) == result.kind = "estimator" /\ s \in result.passed

Span(log) == log[Len(log)] - log[1]

\* rate (a fraction, `per' of it displayed) is (n - 1) crossings per Span ms
IsRateOf(rate, per, log) ==
  rate.num * per.den * Span(log) = (Len(log) - 1) * 1000 * per.num * rate.den

One == [num |-> 1, den |-> 1]

\* the claim as written: (n - 1) / spanSeconds whenever 2 or more are retained
C5_RateAsClaimed ==
  /\ PassDone("water") =>
       IF Len(water.crossingsTimestampsRef) >= 2
         THEN IsRateOf(water.displayRate, VOLUME_PER_PARTICLE, water.crossingsTimestampsRef)
         ELSE water.displayRate.num = 0
  /\ PassDone("playground") =>
       IF Len(playground.crossingsTimestampsRef) >= 2
         THEN IsRateOf(playground.displayRate, One, playground.crossingsTimestampsRef)
         ELSE playground.displayRate.num = 0

\* amended: ... and 0 as well when the retained timestamps span no time
C5_RateOrZero ==
  /\ PassDone("water") =>
       IF Len(water.crossingsTimestampsRef) >= 2 /\ Span(water.crossingsTimestampsRef) > 0
         THEN IsRateOf(water.displayRate, VOLUME_PER_PARTICLE, water.crossingsTimestampsRef)
         ELSE water.displayRate.num = 0
  /\ PassDone("playground") =>
       IF Len(playground.crossingsTimestampsRef) >= 2
            /\ Span(playground.crossingsTimestampsRef) > 0
         THEN IsRateOf(playground.displayRate, One, playground.crossingsTimestampsRef)
         ELSE playground.displayRate.num = 0

\* the example: timestamps 0, 1000, 2000 queried at 2000 give 1.0 per second
\* (0.05 L/s in water)
C5_Witness ==
  /\ PassDone("water") /\ PassDone("playground")
  /\ now = 2000
  /\ playground.crossingsTimestampsRef = <<0, 1000, 2000>>
  /\ playground.displayRate = One
  /\ water.displayRate = [num |-> 1, den |-> 20]

----------------------------------------------------------------------------
(* C10: at the end of a rate-estimation pass every retained timestamp is   *)
(* at most 5000 ms old.                                                    *)

C10_PrunedAfterPass ==
  /\ PassDone("water") =>
       \A i \in DOMAIN water.crossingsTimestampsRef :
         water.crossingsTimestampsRef[i] >= now - 5000
  /\ PassDone("playground") =>
       \A i \in DOMAIN playground.crossingsTimestampsRef :
         playground.crossingsTimestampsRef[i] >= now - 5000

\* a pass has removed a timestamp older than 5 s and kept a younger one
C10_Witness ==
  /\ PassDone("water")
  /\ args.kind = "estimator"
  /\ water.crossingsTimestampsRef # << >>
  /\ Len(water.crossingsTimestampsRef) < Len(args.log)
  /\ args.log[1] < now - 5000

----------------------------------------------------------------------------
(* Position functions.  Progress is taken in whole path units; lengths are *)
(* in thousandths of an svg unit (Milli), divisions truncated.             *)

Milli == 10 * 100

Max(a, b) == IF a >= b THEN a ELSE b

Abs(a) == IF a >= 0 THEN a ELSE -a

\* the greatest r in lo..hi with r * r <= n
RECURSIVE SqrtBetween(_, _, _)
SqrtBetween(n, lo, hi) ==
  IF lo = hi
    THEN lo
    ELSE LET mid == (lo + hi + 1) \div 2
         IN IF mid * mid <= n THEN SqrtBetween(n, mid, hi)
                              ELSE SqrtBetween(n, lo, mid - 1)

\* Math.sqrt
Sqrt(n) == SqrtBetween(n, 0, 46340)

\* lane = id % numLanes;
\* offset = total > 1 ? (lane - (numLanes - 1) / 2) * (offsetRange / numLanes) : 0
LaneOffset(id, total, numLanes, offsetRange) ==
  IF total > 1
    THEN ((2 * (id % numLanes) - (numLanes - 1)) * offsetRange) \div (2 * numLanes)
    ELSE 0

\* a point
Point(px, py) == [x |-> px * Milli, y |-> py * Milli]

(* ElectricCircuit *)

\* const wireStrokeWidth = 4 + (wireWidth / 100) * 8
WireStrokeWidth(wireWidth) == 4 * Milli + (wireWidth * 8 * Milli) \div 100

\* Math.max(1, Math.floor(width / 20))
ElectricNumLanes(width) == Max(1, width \div 20)

\* variant: the lane offset without the single-particle guard
ElectricOffsetUnguarded(particleId, totalParticles, width, strokeWidth) ==
  LaneOffset(particleId, 2, ElectricNumLanes(width), (strokeWidth * 7) \div 10)

\* offsetRange = strokeWidth * 0.7, and the offset
ElectricOffset(particleId, totalParticles, width, strokeWidth) ==
  LaneOffset(particleId, totalParticles, ElectricNumLanes(width), (strokeWidth * 7) \div 10)

\* the return statement of the seg-th branch, for p = progress % TOTAL_PATH_LENGTH
\* (t * 250 with t = p / 250 is p, and so on)
ElectricSegment(seg, p, offset) ==
  CASE seg = 1 -> [x |-> 50 * Milli + p * Milli, y |-> 50 * Milli + offset, angle |-> 0]
    [] seg = 2 -> [x |-> 300 * Milli + offset, y |-> 50 * Milli + (p - 250) * Milli,
                   angle |-> 90]
    [] seg = 3 -> [x |-> 300 * Milli - (p - 325) * Milli, y |-> 125 * Milli + offset,
                   angle |-> 180]
    [] seg = 4 -> [x |-> 200 * Milli + offset, y |-> 125 * Milli + (p - 425) * Milli,
                   angle |-> 90]
    [] seg = 5 -> [x |-> 200 * Milli - (p - 500) * Milli, y |-> 200 * Milli + offset,
                   angle |-> 180]
    [] seg = 6 -> [x |-> -50 * Milli + offset, y |-> 200 * Milli - (p - 750) * Milli,
                   angle |-> 270]
    [] seg = 7 -> [x |-> -50 * Milli + (p - 900) * Milli, y |-> 50 * Milli + offset,
                   angle |-> 0]

\* the chain of if (p < ...) tests
ElectricSegmentOf(p) ==
  IF p < 250 THEN 1 ELSE IF p < 325 THEN 2 ELSE IF p < 425 THEN 3
  ELSE IF p < 500 THEN 4 ELSE IF p < 750 THEN 5 ELSE IF p < 900 THEN 6 ELSE 7

\* variant: the segment is looked up with the raw progress
ElectricGetParticlePositionRaw(progress, particleId, totalParticles, width, strokeWidth) ==
  ElectricSegment(ElectricSegmentOf(progress), progress,
                  ElectricOffset(particleId, totalParticles, width, strokeWidth))

\* getParticlePosition of SimulationWrapper.tsx
ElectricGetParticlePosition(progress, particleId, totalParticles, width, strokeWidth) ==
  LET p == progress % TOTAL_PATH_LENGTH
  IN ElectricSegment(ElectricSegmentOf(p), p,
                     ElectricOffset(particleId, totalParticles, width, strokeWidth))

(* WaterCircuit *)

\* const pipeStrokeWidth = 8 + (pipeWidth / 100) * 12
PipeStrokeWidth(pipeWidth) == 8 * Milli + (pipeWidth * 12 * Milli) \div 100

\* const topY = 180 - (heightDifference / 100) * 140
WaterTopY(heightDifference) == 180 * Milli - (heightDifference * 140 * Milli) \div 100

\* Math.max(1, Math.floor(width / 25))
WaterNumLanes(width) == Max(1, width \div 25)

\* offsetRange = strokeWidth * 0.8, and the offset
WaterOffset(particleId, totalParticles, width, strokeWidth) ==
  LaneOffset(particleId, totalParticles, WaterNumLanes(width), (strokeWidth * 8) \div 10)

\* calculatePosition(start, end, prog) with prog = num / den; the vector and
\* its length are taken in hundredths
CalculatePosition(start, end, num, den, offset) ==
  LET x == start.x + ((end.x - start.x) * num) \div den
      y == start.y + ((end.y - start.y) * num) \div den
      vecX == (end.x - start.x) \div 10
      vecY == (end.y - start.y) \div 10
      len == Sqrt(vecX * vecX + vecY * vecY)
      mag == IF len = 0 THEN 1 ELSE len
      normalX == (vecY * Milli) \div mag
      normalY == ((-vecX) * Milli) \div mag
  IN [x |-> x + (offset * normalX) \div Milli, y |-> y + (offset * normalY) \div Milli]

P_TOP_OUTLET(heightDifference) ==
  [x |-> 180 * Milli, y |-> WaterTopY(heightDifference) + 30 * Milli]
P_TURBINE == Point(150, 240)
P_BOTTOM_INLET == Point(70, 300)
P_BOTTOM_OUTLET == Point(20, 300)
P_PUMP_INLET == Point(20, 220)
P_PUMP_OUTLET(heightDifference) == [x |-> 20 * Milli, y |-> WaterTopY(heightDifference)]
P_TOP_INLET(heightDifference) == [x |-> 180 * Milli, y |-> WaterTopY(heightDifference)]

\* the return statement of the seg-th branch
WaterSegment(seg, p, offset, h) ==
  CASE seg = 1 -> CalculatePosition(P_TOP_OUTLET(h), P_TURBINE, p, 200, offset)
    [] seg = 2 -> CalculatePosition(P_TURBINE, P_BOTTOM_INLET, p - 200, 150, offset)
    [] seg = 3 -> P_BOTTOM_INLET
    [] seg = 4 -> CalculatePosition(P_BOTTOM_OUTLET, P_PUMP_INLET, p - 400, 100, offset)
    [] seg = 5 -> CalculatePosition(P_PUMP_INLET, P_PUMP_OUTLET(h), p - 500, 250, offset)
    [] seg = 6 -> CalculatePosition(P_PUMP_OUTLET(h), P_TOP_INLET(h), p - 750, 200, offset)
    [] seg = 7 -> P_TOP_INLET(h)

\* the chain of if (p < ...) tests
WaterSegmentOf(p) ==
  IF p < 200 THEN 1 ELSE IF p < 350 THEN 2 ELSE IF p < 400 THEN 3
  ELSE IF p < 500 THEN 4 ELSE IF p < 750 THEN 5 ELSE IF p < 950 THEN 6 ELSE 7

\* getParticlePosition of WaterCircuit
WaterGetParticlePosition(progress, particleId, totalParticles, width, strokeWidth, heightDifference) ==
  LET p == progress % TOTAL_PATH_LENGTH
  IN WaterSegment(WaterSegmentOf(p), p,
                  WaterOffset(particleId, totalParticles, width, strokeWidth),
                  heightDifference)

(* PlaygroundSlide *)

\* const topY = 100 - (slideHeight / 100) * 80
SlideTopY(slideHeight) == 100 * Milli - (slideHeight * 80 * Milli) \div 100

\* const slideStrokeWidth = 8 + (slideWidth / 100) * 16
SlideStrokeWidth(slideWidth) == 8 * Milli + (slideWidth * 16 * Milli) \div 100

\* Math.max(1, Math.floor(width / 25))
KidNumLanes(width) == Max(1, width \div 25)

\* offset = totalKids > 1 ? (lane - (numLanes - 1) / 2) * 12 : 0
KidOffset(kidId, totalKids, width) ==
  LaneOffset(kidId, totalKids, KidNumLanes(width), 12 * Milli * KidNumLanes(width))

\* the branch p < 300: the cubic Bezier curve through p0 = (50, topY),
\* p1 = (150, topY), p2 = (150, 200), p3 = (250, 200), displaced by offset
\* along its normal.  With t = p / 300 and q = 300 - p (tInv = q / 300) the
\* Bernstein weights tInv^3, 3 tInv^2 t, 3 tInv t^2, t^3 are b0..b3 in
\* millionths; y is summed in tenths; the derivative (dx, dy) and its
\* length are in hundredths.
SlidePosition(p, offset, slideHeight) ==
  LET topY == SlideTopY(slideHeight) \div 100
      q  == 300 - p
      b0 == (q * q * q) \div 27
      b1 == (3 * q * q * p) \div 27
      b2 == (3 * q * p * p) \div 27
      b3 == (p * p * p) \div 27
      x  == (b0 * 50 + b1 * 150 + b2 * 150 + b3 * 250) \div Milli
      y  == (b0 * topY + b1 * topY + b2 * 2000 + b3 * 2000) \div (10 * Milli)
      dx == (3 * q * q * (150 - 50) + 6 * q * p * (150 - 150)
               + 3 * p * p * (250 - 150)) \div 900
      dy == (q * p * (2000 - topY)) \div 1500
      mag == Sqrt(dx * dx + dy * dy)
  IN IF mag = 0
       THEN [x |-> x, y |-> y]
       ELSE [x |-> x + (offset * (((-dy) * Milli) \div mag)) \div Milli,
             y |-> y + (offset * ((dx * Milli) \div mag)) \div Milli]

\* the return statement of the seg-th branch
KidSegment(seg, p, offset, slideHeight) ==
  CASE seg = 1 -> SlidePosition(p, offset, slideHeight)
    [] seg = 2 -> [x |-> 250 * Milli - ((p - 300) * 200 * Milli) \div 300,
                   y |-> 200 * Milli + offset]
    [] seg = 3 -> [x |-> 50 * Milli + offset,
                   y |-> 200 * Milli
                           - ((p - 600) * (200 * Milli - SlideTopY(slideHeight))) \div 400]
    [] seg = 4 -> [x |-> 0, y |-> 0]

\* the chain of if (p < ...) tests
KidSegmentOf(p) ==
  IF p < 300 THEN 1 ELSE IF p < 600 THEN 2 ELSE IF p < 1000 THEN 3 ELSE 4

\* getKidPosition
GetKidPosition(progress, kidId, totalKids, width, slideHeight) ==
  LET p == progress % TOTAL_PATH_LENGTH
  IN KidSegment(KidSegmentOf(p), p, KidOffset(kidId, totalKids, width), slideHeight)

----------------------------------------------------------------------------
(* The position functions on their own: the arguments of one call are      *)
(* drawn, the function is evaluated as the render does, and the entity is  *)
(* then taken whole laps further.                                          *)

\* progress values: the ends of all segments and points inside them
PosProgress == {0, 5, 100, 200, 250, 300, 325, 350, 400, 425, 450, 500, 600,
                750, 900, 950, 999}
PosIds == 0..4
PosRange == {10, 50, 100}

\* entity counts: the component's own, and a single entity
PosTotals(sim) ==
  {1, CASE sim = "electric" -> ELECTRIC_PARTICLE_COUNT
        [] sim = "water" -> WATER_PARTICLE_COUNT
        [] sim = "playground" -> KID_COUNT}

\* the call in the render: x, y of the entity described by a
PositionOf(a) ==
  CASE a.sim = "electric" ->
         ElectricGetParticlePosition(a.progress, a.id, a.total, a.width,
                                     WireStrokeWidth(a.width))
    [] a.sim = "water" ->
         WaterGetParticlePosition(a.progress, a.id, a.total, a.width,
                                  PipeStrokeWidth(a.width), a.height)
    [] a.sim = "playground" ->
         GetKidPosition(a.progress, a.id, a.total, a.width, a.height)

OffsetOf(a) ==
  CASE a.sim = "electric" -> ElectricOffset(a.id, a.total, a.width, WireStrokeWidth(a.width))
    [] a.sim = "water" -> WaterOffset(a.id, a.total, a.width, PipeStrokeWidth(a.width))
    [] a.sim = "playground" -> KidOffset(a.id, a.total, a.width)

\* the stroke width the render draws the wire, pipe or slide of a with
StrokeWidthOf(a) ==
  CASE a.sim = "electric" -> WireStrokeWidth(a.width)
    [] a.sim = "water" -> PipeStrokeWidth(a.width)
    [] a.sim = "playground" -> SlideStrokeWidth(a.width)

NumLanesOf(a) ==
  CASE a.sim = "electric" -> ElectricNumLanes(a.width)
    [] a.sim = "water" -> WaterNumLanes(a.width)
    [] a.sim = "playground" -> KidNumLanes(a.width)

\* the formula of the seg-th segment of a's path at progress p, for lane offset `offset'
SegmentOf(a, seg, p, offset) ==
  CASE a.sim = "electric" -> ElectricSegment(seg, p, offset)
    [] a.sim = "water" -> WaterSegment(seg, p, offset, a.height)
    [] a.sim = "playground" -> KidSegment(seg, p, offset, a.height)

\* where the segments of each path end
SegmentEnds(sim) ==
  CASE sim = "electric" -> <<250, 325, 425, 500, 750, 900, 1000>>
    [] sim = "water" -> <<200, 350, 400, 500, 750, 950, 1000>>
    [] sim = "playground" -> <<300, 600, 1000>>

InitPos ==
  /\ now = 0
  /\ visibility = AllVisible
  /\ simulationOrder = InitialOrder
  /\ draggedItem = NoItem
  /\ dragOverItem = NoItem
  /\ electric = Mounted(0).electric
  /\ water = Mounted(0).water
  /\ playground = Mounted(0).playground
  /\ rafQueue = Mounted(0).rafQueue
  /\ nextFrameId = Mounted(0).nextFrameId
  /\ inputs = 0
  /\ frames = 0
  /\ lastOp = [op |-> "init", sim |-> "all"]
  /\ \E sim \in Sims, p \in PosProgress, id \in PosIds, w \in PosRange, h \in PosRange :
       \E n \in PosTotals(sim) :
         /\ focus = sim
         /\ sim = "electric" => h = 50
         /\ args = [kind |-> "position", sim |-> sim, progress |-> p, id |-> id,
                    total |-> n, width |-> w, height |-> h]
  /\ result = NoArgs

Rendered(a) ==
  [kind |-> "position", pos |-> PositionOf(a), offset |-> OffsetOf(a),
   numLanes |-> NumLanesOf(a)]

\* the render evaluates the function for the entity
Render ==
  /\ result.kind = "none"
  /\ result' = Rendered(args)
  /\ lastOp' = [op |-> "render", sim |-> args.sim]
  /\ UNCHANGED <<electric, water, playground, visibility, simulationOrder, draggedItem, dragOverItem, now, rafQueue, nextFrameId,
                 focus, inputs, frames, args>>

\* the entity is one lap further, and is rendered again
Lap ==
  /\ result.kind = "position"
  /\ args.progress < MaxTurns * TOTAL_PATH_LENGTH
  /\ args' = [args EXCEPT !.progress = @ + TOTAL_PATH_LENGTH]
  /\ result' = Rendered(args')
  /\ lastOp' = [op |-> "lap", sim |-> args.sim]
  /\ UNCHANGED <<electric, water, playground, visibility, simulationOrder, draggedItem, dragOverItem, now, rafQueue, nextFrameId,
                 focus, inputs, frames>>

\* the entity is at the end of the i-th segment of its path: the formula of
\* that segment there, and what the function returns there (the formula of
\* the segment that starts there)
AtBoundary(i) ==
  /\ result.kind = "none"
  /\ i \in DOMAIN SegmentEnds(args.sim)
  /\ args.progress = SegmentEnds(args.sim)[i] % TOTAL_PATH_LENGTH
  /\ result' = [kind |-> "boundary",
                ending |-> SegmentOf(args, i, SegmentEnds(args.sim)[i], OffsetOf(args)),
                starting |-> PositionOf(args)]
  /\ lastOp' = [op |-> "boundary", sim |-> args.sim]
  /\ UNCHANGED <<electric, water, playground, visibility, simulationOrder, draggedItem, dragOverItem, now, rafQueue, nextFrameId,
                 focus, inputs, frames, args>>

NextPos == Render \/ Lap \/ \E i \in 1..7 : AtBoundary(i)

SpecPos == InitPos /\ [][NextPos]_vars

----------------------------------------------------------------------------
(* C7: the position function is continuous at every segment boundary,      *)
(* the wrap from 1000 to 0 included: the segment that ends at a boundary   *)
(* and the segment that starts there give positions that differ by at most *)
(* 1e-6 in x and in y.                                                     *)

\* |a - b| <= 1e-6 svg units
Near(a, b) == Abs(a - b) * (1000000 \div Milli) <= 1

C7_Continuous ==
  result.kind = "boundary" =>
    /\ Near(result.ending.x, result.starting.x)
    /\ Near(result.ending.y, result.starting.y)

----------------------------------------------------------------------------
(* C8: with an entity count of 1 the lane offset is 0 for every id, width  *)
(* and progress, the position is the one on the centerline of the path,    *)
(* and the lane count the offset is divided by is not 0.                   *)

\* the point of the path's centerline at a's progress
Centerline(a) ==
  LET p == a.progress % TOTAL_PATH_LENGTH
      seg == CASE a.sim = "electric" -> ElectricSegmentOf(p)
               [] a.sim = "water" -> WaterSegmentOf(p)
               [] a.sim = "playground" -> KidSegmentOf(p)
  IN SegmentOf(a, seg, p, 0)

C8_SingleEntity ==
  (result.kind = "position" /\ args.total = 1) =>
    /\ result.offset = 0
    /\ result.numLanes >= 1
    /\ result.pos = Centerline(args)

\* a single entity whose id would put it in a side lane was rendered
C8_Witness ==
  /\ result.kind = "position"
  /\ args.total = 1
  /\ result.numLanes > 1
  /\ 2 * (args.id % result.numLanes) # result.numLanes - 1
  /\ result.offset = 0

----------------------------------------------------------------------------
(* C9: the position depends on progress only through progress mod 1000:    *)
(* an entity rendered one lap further is at the same position, so          *)
(* position(1005) = position(5).                                           *)

C9_LapInvariant ==
  [][lastOp'.op = "lap" => result'.pos = result.pos]_vars

\* position(1005) has been evaluated on the electric path: 5 units into the
\* first segment
C9_Witness ==
  /\ lastOp.op = "lap"
  /\ args.sim = "electric"
  /\ args.progress = 1005
  /\ result.pos.x = 55 * Milli

----------------------------------------------------------------------------
(* C11: when a playing simulation is unmounted its pending tick is         *)
(* cancelled: a simulation that is not on the page has no tick pending,    *)
(* and nothing of it changes while it stays off the page or in the step    *)
(* that takes it off; a simulation on the page has no tick pending other   *)
(* than the one its mounted instance holds.                                *)

\* everything component s holds
Component(s) ==
  CASE s = "electric" -> electric
    [] s = "water" -> water
    [] s = "playground" -> playground

\* state and refs of s other than the frame handle, which the cleanup of
\* WaterCircuit clears
Disposed(c) == [f \in DOMAIN c \ {"animationFrameId"} |-> c[f]]

C11_UnmountCancels ==
  /\ [](\A s \in Sims :
          /\ ~visibility[s] => Pending(s) = {}
          /\ \A cb \in Pending(s) : cb.id = Component(s).animationFrameId)
  /\ [][\A s \in Sims :
          ~visibility'[s] => Disposed(Component(s))' = Disposed(Component(s))]_vars

\* a display refresh has passed since a simulation was taken off the page
\* while it was playing
C11_Witness ==
  \E s \in Sims :
    /\ ~visibility[s]
    /\ Playing(s)
    /\ lastOp.op = "frame"

----------------------------------------------------------------------------
(* C12: at every moment each simulation has at most one tick pending in    *)
(* the animation-frame queue, and the frame handle the simulation stores   *)
(* is the handle of that tick, whatever sequence of play, pause, reset and *)
(* slider changes (a voltage change re-runs the electric play/pause        *)
(* effect) led there.                                                      *)
C12_OnePendingTick ==
  \A s \in Sims :
    /\ Cardinality(Pending(s)) <= 1
    /\ \A cb \in Pending(s) : Component(s).animationFrameId = cb.id

\* the voltage was changed while the electric simulation was playing, and
\* its tick is pending
C12_Witness ==
  /\ lastOp = [op |-> "slider", sim |-> "electric"]
  /\ electric.voltage # INITIAL_VOLTAGE
  /\ electric.isPlaying
  /\ Pending("electric") # {}

----------------------------------------------------------------------------
(* C13: a tick of the electric simulation advances every particle by       *)
(* exactly (voltage / 100) * 4 path units: the same step for all of them,  *)
(* whatever their position on the loop and whatever the wire width.        *)
C13_ElectricStep ==
  [][Ticked("electric") =>
       \A k \in DOMAIN electric.particles :
         100 * (electric'.particles[k].progress - electric.particles[k].progress)
           = electric.voltage * 4 * Unit]_vars

\* a tick has run after the user set the voltage to its maximum and changed
\* the wire width
C13_Witness ==
  /\ lastOp.op = "frame"
  /\ electric.isPlaying
  /\ electric.voltage = 100
  /\ electric.wireWidth # INITIAL_WIRE_WIDTH

----------------------------------------------------------------------------
(* C14: a tick of the water simulation advances a particle whose progress  *)
(* mod 1000 is below 350 by gravitySpeed = (0.5 + (h / 100) * 4) * wf and  *)
(* any other particle by pumpSpeed = 3 * wf, where h is the height         *)
(* difference and wf = 0.2 + 0.8 * ((pipeWidth - 10) / 90).                *)
(* (225 * wf = 45 + 2 * (pipeWidth - 10); both sides are scaled to whole   *)
(* numbers.)                                                               *)
C14_WaterStep ==
  [][Ticked("water") =>
       \A k \in DOMAIN water.particles :
         LET p == water.particles[k].progress
             step == water'.particles[k].progress - p
             wf225 == 45 + 2 * (water.pipeWidth - 10)
         IN IF p % (1000 * Unit) < 350 * Unit
              THEN 100 * 225 * step = (50 + 4 * water.heightDifference) * wf225 * Unit
              ELSE 225 * step = 3 * wf225 * Unit]_vars

\* a tick has run after the user changed both the height difference and the
\* pipe width
C14_Witness ==
  /\ lastOp.op = "frame"
  /\ water.isPlaying
  /\ water.heightDifference # INITIAL_HEIGHT_DIFFERENCE
  /\ water.pipeWidth # INITIAL_PIPE_WIDTH

----------------------------------------------------------------------------
(* C15: a tick of the playground simulation advances a kid whose progress  *)
(* mod 1000 is below 300 by slideSpeed = (1.5 + (h / 100) * 4) * wf, one   *)
(* in [300, 600) by runSpeed = 2 * wf and any other by elevatorSpeed       *)
(* = 3 * wf, where h is the slide height and                               *)
(* wf = 0.2 + 0.8 * ((slideWidth - 10) / 90).                              *)
C15_PlaygroundStep ==
  [][Ticked("playground") =>
       \A k \in DOMAIN playground.kids :
         LET p == playground.kids[k].progress
             step == playground'.kids[k].progress - p
             wf225 == 45 + 2 * (playground.slideWidth - 10)
         IN IF p % (1000 * Unit) < 300 * Unit
              THEN 100 * 225 * step = (150 + 4 * playground.slideHeight) * wf225 * Unit
            ELSE IF p % (1000 * Unit) < 600 * Unit
              THEN 225 * step = 2 * wf225 * Unit
            ELSE 225 * step = 3 * wf225 * Unit]_vars

\* a tick has run after the user changed both the slide height and the
\* slide width
C15_Witness ==
  /\ lastOp.op = "frame"
  /\ playground.isPlaying
  /\ playground.slideHeight # INITIAL_SLIDE_HEIGHT
  /\ playground.slideWidth # INITIAL_SLIDE_WIDTH

----------------------------------------------------------------------------
(* C16: the three simulations share no mutable state.  An input on one     *)
(* simulation (play, pause, reset, measurement toggle, slider change)      *)
(* leaves everything the other two hold, and their pending ticks, as they  *)
(* were; in a display refresh, where the ticks of all playing simulations  *)
(* run one after the other, each simulation ends in the state its own tick *)
(* alone would have produced (frame handles aside: they are numbers drawn  *)
(* from the browser's one counter).                                        *)
C16_NoSharedState ==
  [][/\ lastOp'.op = "frame" =>
          \A s \in Sims :
            Disposed(Component(s))' = Disposed(RunCallbacks(World, Pending(s), now')[s])
     /\ lastOp'.op # "frame" =>
          \A s \in Sims \ {lastOp'.sim} :
            /\ Component(s)' = Component(s)
            /\ Pending(s)' = Pending(s)]_vars

\* all three simulations have ticked together with measurement on in one of
\* them after an input on another
C16_Witness ==
  /\ lastOp.op = "frame"
  /\ \A s \in Sims : Playing(s) /\ Pending(s) # {}
  /\ \E s \in Sims : MeasureRef(s)
  /\ \E s \in Sims : ~MeasureRef(s) /\ Component(s) # Mounted(0)[s] /\ inputs = 2

----------------------------------------------------------------------------
(* C17: in each simulation a tick records a crossing for an entity exactly *)
(* when measurement is active and the entity's progress mod 1000 is below  *)
(* the checkpoint before the step and at or above it after the step, the   *)
(* checkpoint being 450 in water and playground and 900 in electric; with  *)
(* measurement inactive a tick records nothing.                            *)
(* What a tick records is read off the state: the growth of the crossing   *)
(* log (water, playground) or of the counter (electric) over what the      *)
(* rate pass at the top of the tick left.                                  *)
C17_RecordsAsClaimed ==
  [][\A s \in Sims :
       Ticked(s) =>
         LET checkpoint == IF s = "electric" THEN ELECTRIC_CROSSING_POINT
                                             ELSE CROSSING_POINT
             before(k) == Entities(s)[k].progress % (1000 * Unit)
             after(k) == Entities(s)'[k].progress % (1000 * Unit)
             \* the test the tick applies to entity k
             tested(k) ==
               IF s = "electric"
                 THEN ElectricCrossed(Entities(s)[k].progress, Entities(s)'[k].progress)
                 ELSE Crossed(Entities(s)[k].progress, Entities(s)'[k].progress)
             recorded ==
               CASE s = "electric" ->
                      electric'.particlesCrossed
                        - ElectricReport(electric, now').particlesCrossed
                 [] s = "water" ->
                      Len(water'.crossingsTimestampsRef)
                        - Len(WaterRatePass(water, now').crossingsTimestampsRef)
                 [] s = "playground" ->
                      Len(playground'.crossingsTimestampsRef)
                        - Len(PlaygroundRatePass(playground, now').crossingsTimestampsRef)
         IN /\ ~MeasureRef(s) => recorded = 0
            /\ MeasureRef(s) =>
                 /\ recorded = Cardinality({k \in DOMAIN Entities(s) : tested(k)})
                 /\ \A k \in DOMAIN Entities(s) :
                      tested(k) <=> (before(k) < checkpoint * Unit
                                       /\ after(k) >= checkpoint * Unit)]_vars

----------------------------------------------------------------------------
(* C18: in the water and playground simulations the displayed rate is      *)
(* recomputed at most once per 100 ms of clock time.  lastUiUpdateTimeRef  *)
(* holds the time of the latest recomputation, or of the enabling of       *)
(* measurement if none has happened since: enabling sets it to the clock;  *)
(* a tick that recomputes comes more than 100 ms after the time it holds   *)
(* (so two successive recomputations, and enabling and the first           *)
(* recomputation, are more than 100 ms apart) and sets it to the clock; a  *)
(* tick that does not recompute leaves displayRate as it was and only      *)
(* appends to the crossing log.                                            *)
C18_Throttled ==
  [][\A s \in {"water", "playground"} :
       LET c == Component(s)
           log == c.crossingsTimestampsRef
       IN /\ (lastOp' = [op |-> "measure", sim |-> s] /\ Measuring(s)') =>
               c'.lastUiUpdateTimeRef = now'
          /\ Ticked(s) =>
               IF c'.lastUiUpdateTimeRef # c.lastUiUpdateTimeRef
                 THEN /\ MeasureRef(s)
                      /\ now' - c.lastUiUpdateTimeRef > 100
                      /\ c'.lastUiUpdateTimeRef = now'
                 ELSE /\ c'.displayRate = c.displayRate
                      /\ Len(c'.crossingsTimestampsRef) >= Len(log)
                      /\ SubSeq(c'.crossingsTimestampsRef, 1, Len(log)) = log]_vars

\* a tick has recomputed the rate, more than 100 ms after measurement was
\* enabled, and the log holds a crossing that a tick in between appended
C18_Witness ==
  \E s \in {"water", "playground"} :
    LET c == Component(s)
        log == c.crossingsTimestampsRef
    IN /\ lastOp.op = "frame"
       /\ c.measureRateRef /\ c.isPlaying
       /\ c.lastUiUpdateTimeRef = now
       /\ \E i \in DOMAIN log : log[i] = now - 100

----------------------------------------------------------------------------
(* C19: in every simulation the entities go into                           *)
(* max(1, floor(width / laneSpacing)) lanes (laneSpacing 20 in electric,   *)
(* 25 in water and playground), lane = id mod numLanes, and the lane       *)
(* offset is (lane - (numLanes - 1)/2) times a factor proportional to the  *)
(* rendered stroke width.  Taken for the components' own entity counts     *)
(* (more than one entity), and proportionality in its weakest sense: the   *)
(* offset is 0, negative or positive as lane - (numLanes - 1)/2 is, and    *)
(* between two widths that give the same number of lanes the offset of an  *)
(* entity changes in the ratio of the stroke widths (up to the rounding of *)
(* the two offsets to a thousandth).                                       *)

\* the values of the width sliders
SliderWidths == 10..100

C19_LanesAsClaimed ==
  (result.kind = "position" /\ args.total > 1) =>
    LET laneSpacing == IF args.sim = "electric" THEN 20 ELSE 25
        numLanes == IF args.width \div laneSpacing >= 1
                      THEN args.width \div laneSpacing ELSE 1
        lane == args.id % numLanes
        twice == 2 * lane - (numLanes - 1)
    IN /\ result.numLanes = numLanes
       /\ (twice = 0) <=> (result.offset = 0)
       /\ (twice > 0) <=> (result.offset > 0)
       /\ \A w \in SliderWidths :
            LET other == [args EXCEPT !.width = w] IN
            NumLanesOf(other) = numLanes =>
              Abs(result.offset * StrokeWidthOf(other)
                    - OffsetOf(other) * StrokeWidthOf(args))
                <= StrokeWidthOf(other) + StrokeWidthOf(args)

----------------------------------------------------------------------------
----------------------------------------------------------------------------
(* C22: in every reachable state the entities of each simulation have      *)
(* exactly the ids 0..count-1, each once and in order (count 30 electric,  *)
(* 40 water, 15 playground): a tick changes only progress, a reset puts    *)
(* the initial set with the same ids in place, and in a step that is not a *)
(* reset of the simulation no entity's progress decreases.                 *)
C22_EntitySet ==
  /\ [](\A s \in Sims :
          /\ DOMAIN Entities(s) = 1..EntityCount(s)
          /\ \A k \in DOMAIN Entities(s) :
               /\ DOMAIN Entities(s)[k] = {"id", "progress"}
               /\ Entities(s)[k].id = k - 1)
  /\ [][\A s \in Sims :
          IF lastOp' = [op |-> "reset", sim |-> s]
            THEN \A k \in DOMAIN Entities(s) :
                   Entities(s)'[k].progress * EntityCount(s) = (k - 1) * 1000 * Unit
            ELSE \A k \in DOMAIN Entities(s) :
                   Entities(s)'[k].progress >= Entities(s)[k].progress]_vars

\* a simulation was reset after it had ticked
C22_Witness ==
  /\ lastOp.op = "reset"
  /\ frames >= 1
  /\ ~Playing(lastOp.sim)
  /\ Entities(lastOp.sim)[2].progress * EntityCount(lastOp.sim) = 1000 * Unit

----------------------------------------------------------------------------
(* C23: toggling the visibility checkbox of one simulation leaves every    *)
(* other simulation that stays visible as it was (entities, parameters,    *)
(* playback, measurement and displayed rate are kept, it is not            *)
(* re-initialised), for every combination of visible panels, the changes   *)
(* between one visible panel and two or three included.                    *)
C23_OthersKept ==
  [][lastOp'.op = "visibility" =>
       \A s \in Sims \ {lastOp'.sim} :
         (visibility[s] /\ visibility'[s]) =>
           Disposed(Component(s))' = Disposed(Component(s))]_vars

----------------------------------------------------------------------------
(* C24: in the electric circuit every rate reported at a bucket boundary   *)
(* counts the crossings of at least 1000 ms of continuously enabled        *)
(* measurement; in particular the first report after measurement is        *)
(* enabled does not come before 1000 ms of enabled measurement, whatever   *)
(* the time since it was last disabled or since the component was mounted. *)
(* The program keeps no record of when measurement was enabled; the        *)
(* formula takes the claim where the state shows that time: the tick that  *)
(* follows the enabling click directly, less than 1000 ms after it, must   *)
(* not close a bucket (report, restart the counter, move the bucket        *)
(* start).                                                                 *)
C24_NoEarlyReport ==
  [][(/\ lastOp = [op |-> "measure", sim |-> "electric"]
      /\ electric.measureRate
      /\ Ticked("electric")
      /\ now' - now < 1000) =>
        /\ electric'.lastMeasureTime = electric.lastMeasureTime
        /\ electric'.displayRate = electric.displayRate
        /\ electric'.particlesCrossed >= electric.particlesCrossed]_vars

----------------------------------------------------------------------------
(* C25: in every simulation, for every value of the width slider in        *)
(* [10, 100] and every entity id, the absolute lane offset is at most half *)
(* of the rendered stroke width (electric 4 + 0.08 * wireWidth, water      *)
(* 8 + 0.12 * pipeWidth, playground 8 + 0.16 * slideWidth), so that every  *)
(* entity is drawn inside the wire, pipe or slide.                         *)
C25_InsideStroke ==
  result.kind = "position" =>
    \A w \in SliderWidths :
      LET a == [args EXCEPT !.width = w]
          strokeWidth ==
            CASE a.sim = "electric" -> 4 * Milli + (8 * w * Milli) \div 100
              [] a.sim = "water" -> 8 * Milli + (12 * w * Milli) \div 100
              [] a.sim = "playground" -> 8 * Milli + (16 * w * Milli) \div 100
      IN 2 * Abs(OffsetOf(a)) <= strokeWidth

----------------------------------------------------------------------------
(* C26: in the electric circuit the spacing of the particles never         *)
(* changes: in every reachable state                                       *)
(* progress_i - progress_j = ((i - j) / 30) * 1000 for all particles i and *)
(* j, and no particle overtakes another (a particle with a higher id is    *)
(* ahead).  Stated against particle 0 and between neighbours, which gives  *)
(* every pair by subtraction: progress_i - progress_0 = (i / 30) * 1000,   *)
(* and each particle is behind the next.                                   *)
C26_SpacingKept ==
  LET ps == electric.particles IN
  /\ ps[1].id = 0
  /\ \A k \in DOMAIN ps : 30 * (ps[k].progress - ps[1].progress) = ps[k].id * 1000 * Unit
  /\ \A k \in DOMAIN ps \ {1} :
       ps[k - 1].id < ps[k].id /\ ps[k - 1].progress < ps[k].progress

\* the particles have moved at two different voltages, one tick each or more
C26_Witness ==
  /\ lastOp.op = "frame"
  /\ electric.isPlaying
  /\ electric.voltage = 100
  /\ frames >= 2
  /\ electric.particles[1].progress % (4 * Unit) # 0

----------------------------------------------------------------------------
(* C27: after any sequence of drag-start, drag-over, drag-leave, drop and  *)
(* drag-end events the panel order is a permutation of electric, water and *)
(* playground (each key exactly once); a drop on another panel moves the   *)
(* dragged key to the index the drop target had before the drop; a drop on *)
(* the dragged panel itself or with nothing dragged leaves the order       *)
(* unchanged; after every drop and every drag-end draggedItem and          *)
(* dragOverItem are both null.                                             *)
C27_OrderIsPermutation ==
  /\ [](/\ Len(simulationOrder) = 3
        /\ \A key \in Sims : Cardinality({i \in 1..3 : simulationOrder[i] = key}) = 1)
  /\ [][/\ lastOp'.op = "drop" =>
             IF draggedItem = NoItem \/ draggedItem = lastOp'.sim
               THEN simulationOrder' = simulationOrder
               ELSE \E i \in 1..3 :
                      /\ simulationOrder[i] = lastOp'.sim
                      /\ simulationOrder'[i] = draggedItem
        /\ lastOp'.op \in {"drop", "dragEnd"} =>
             draggedItem' = NoItem /\ dragOverItem' = NoItem]_vars

\* the first panel was dropped on the last one: it is now last and the
\* other two have moved up
C27_Witness ==
  /\ lastOp = [op |-> "drop", sim |-> "playground"]
  /\ simulationOrder = <<"water", "playground", "electric">>
  /\ draggedItem = NoItem

----------------------------------------------------------------------------
(* C28: in the water and playground simulations the displayed rate is      *)
(* always a finite, non-negative number; when a pass retains two or more   *)
(* timestamps of which the oldest and the newest are equal (span 0), it    *)
(* reports 0 instead of dividing by zero.                                  *)
C28_RateFinite ==
  \A s \in {"water", "playground"} :
    /\ DisplayRate(s).den > 0
    /\ DisplayRate(s).num >= 0
    /\ (/\ PassDone(s)
        /\ Len(Component(s).crossingsTimestampsRef) >= 2
        /\ Component(s).crossingsTimestampsRef[1]
             = Component(s).crossingsTimestampsRef[Len(Component(s).crossingsTimestampsRef)])
         => DisplayRate(s).num = 0

\* a pass has run over a log of two or more equal timestamps
C28_Witness ==
  /\ PassDone("water") /\ PassDone("playground")
  /\ Len(water.crossingsTimestampsRef) >= 2
  /\ water.crossingsTimestampsRef[1] = water.crossingsTimestampsRef[2]
  /\ Len(playground.crossingsTimestampsRef) = Len(water.crossingsTimestampsRef)
  /\ water.displayRate = Zero

----------------------------------------------------------------------------
(* C21: a simulation that stays mounted and playing ticks infinitely       *)
(* often, also across slider changes and measurement toggles, because      *)
(* every tick schedules the next; so every water particle and every        *)
(* playground kid, and every electric particle unless the voltage is 0,    *)
(* passes the checkpoint again and again.                                  *)

\* entity k of s goes past `checkpoint' in this step
Passes(s, k, checkpoint) ==
  /\ Ticked(s)
  /\ Mod(Entities(s)[k].progress) < checkpoint * Unit
  /\ \/ Mod(Entities(s)[k].progress) > Entities(s)'[k].progress
     \/ Entities(s)'[k].progress >= checkpoint * Unit

\* (the simulation on the page is the one in focus; of the other two the
\* conjuncts ask nothing)
C21_TicksForever ==
  /\ []<><<Ticked(focus)>>_vars
  /\ \A k \in 1..WATER_PARTICLE_COUNT :
       []<><<focus = "water" => Passes("water", k, CROSSING_POINT)>>_vars
  /\ \A k \in 1..KID_COUNT :
       []<><<focus = "playground" => Passes("playground", k, CROSSING_POINT)>>_vars
  /\ \A k \in 1..ELECTRIC_PARTICLE_COUNT :
       []<><<focus = "electric" =>
               (electric.voltage = 0 \/ Passes("electric", k, ELECTRIC_CROSSING_POINT))>>_vars

\* the simulation is past the refreshes in which the user operated it, with
\* a slider moved and measurement switched on, and is playing
C21_Witness ==
  /\ frames > MaxFrames
  /\ inputs = MaxInputs
  /\ Playing(focus) /\ Measuring(focus)
  /\ Pending(focus) # {}
  /\ \/ electric.voltage = 100
     \/ water.pipeWidth = 100
     \/ playground.slideHeight = 100

====
